---- MODULE Spec2Model ----
(***************************************************************************)
(* Orchestration core of ContentLens_AI: the task router                   *)
(* (agents/router.py), the batch planner (nodes/router_node.py), the batch *)
(* executor (nodes/parallel_batch_node.py), the concurrent agents node     *)
(* (nodes/parallel_agents_node.py), the compiled graph                     *)
(* (graphs/document_graph.py) and the response of run_document_workflow    *)
(* (workflows/process_document.py), modelled as state machines over the    *)
(* AgentState dictionary.                                                  *)
(***************************************************************************)
EXTENDS Integers, Sequences, FiniteSets, TLC

\* ------------------------------------------------------------------ bounds
MaxTasks == 3
MaxResp == 2
MaxWords == 2
MaxCalls == 3
MaxNodeCalls == 2
MaxRequests == 2
MaxAtoms == 5

\* --------------------------------------------------------------- constants
\* valid_steps of RouterAgent.decide, in the order the code lists them
Capabilities ==
    <<"summarize", "translate", "analyze", "recommend", "ideate", "copywrite", "compliance">>

CapSet == {Capabilities[i] : i \in DOMAIN Capabilities}

Range(s) == {s[i] : i \in DOMAIN s}

RECURSIVE Flatten(_)
Flatten(ss) == IF ss = <<>> THEN <<>> ELSE Head(ss) \o Flatten(Tail(ss))

\* ------------------------------------------------------------ batch planner
\* The tasks group_parallel_agents puts in a batch of their own
RunsAlone(task) == task = "translate" \/ task = "compliance"

\* mutant: the pending batch is dropped instead of appended
Flushed_Dropped(acc) == acc.batches

\* if current_batch: batches.append(current_batch)
Flushed(acc) ==
    IF acc.current_batch # <<>> THEN Append(acc.batches, acc.current_batch) ELSE acc.batches

\* mutant: translate and compliance join the pending batch like any other task
GroupStep_Joined(acc, task) ==
    [batches |-> acc.batches, current_batch |-> Append(acc.current_batch, task)]

\* mutant: the singleton batch is appended without flushing the pending batch
GroupStep_NoFlush(acc, task) ==
    IF RunsAlone(task)
    THEN [batches |-> Append(acc.batches, <<task>>), current_batch |-> acc.current_batch]
    ELSE [batches |-> acc.batches, current_batch |-> Append(acc.current_batch, task)]

\* one iteration of the for loop of group_parallel_agents
GroupStep(acc, task) ==
    IF task = "translate"
    THEN [batches |-> Append(Flushed(acc), <<task>>), current_batch |-> <<>>]
    ELSE IF task = "compliance"
    THEN [batches |-> Append(Flushed(acc), <<task>>), current_batch |-> <<>>]
    ELSE [batches |-> acc.batches, current_batch |-> Append(acc.current_batch, task)]

RECURSIVE GroupLoop(_, _, _)
GroupLoop(tasks, i, acc) ==
    IF i > Len(tasks) THEN acc ELSE GroupLoop(tasks, i + 1, GroupStep(acc, tasks[i]))

\* mutant: the batch still pending after the loop is not appended
group_parallel_agents_NoFinalFlush(tasks) ==
    IF tasks = <<>>
    THEN <<>>
    ELSE GroupLoop(tasks, 1, [batches |-> <<>>, current_batch |-> <<>>]).batches

group_parallel_agents(tasks) ==
    IF tasks = <<>>
    THEN <<>>
    ELSE Flushed(GroupLoop(tasks, 1, [batches |-> <<>>, current_batch |-> <<>>]))

\* ------------------------------------------------------------------- state
VARIABLES
    rt_kind,        \* router harness: "off" | "decide" | "fallback"
    rt_llm,         \* router harness: the outcome of the LLM chain for the call
    rt_tracing,     \* router harness: what the tracing calls of the decorator do
    rt_request,     \* router harness: the user_request of the call
    rt_other,       \* router harness: the user_request of an unrelated invocation
    rt_results,     \* router harness: request and outcome of every call so far
    wf_pc,          \* workflow harness: position inside run_document_workflow
    wf_file,        \* workflow harness: the file at file_path
    wf_request,     \* workflow harness: the user_request argument
    wf_text,        \* workflow harness: extracted_text
    wf_initial,     \* workflow harness: initial_state handed to the graph
    wf_graph,       \* workflow harness: "not invoked" | "returned" | "raised"
    wf_final,       \* workflow harness: final_state the graph returned
    wf_exc,         \* workflow harness: the exception the try block raised
    wf_result,      \* workflow harness: what run_document_workflow returned
    wf_trace_failed,\* workflow harness: some tracing call has raised
    rl_state,       \* routing harness: the state handed to routing_logic
    rl_channel,     \* routing harness: the channel routing_logic returned
    api_pc,         \* API: per request, "new" | "saved" | "done"
    api_uploads,    \* API: per request, the uploaded file's name and the user request
    api_fs,         \* API: temp_uploads, file name -> request whose upload it holds
    api_responses,  \* API: per request, the HTTP response and what the workflow did
    sc_last,        \* API: the last score_agent call, its inputs and its response
    sc_backend,     \* API: trace ids for which the tracing backend holds a score
    ca_content,     \* compliance harness: the content handed to ComplianceAgent.run
    ca_result,      \* compliance harness: the dictionary run returned
    plan_tasks,     \* planner harness: the task list handed to group_parallel_agents
    plan_batches,   \* planner harness: the batches it returned
    plan_pc,        \* planner harness: "off" | "input" | "done"
    impl,           \* which executor the workflow runs: "batch" | "agents"
    pc,             \* coordinator stage
    state,          \* the AgentState dictionary: key -> value, absent keys absent
    thread,         \* per capability: state of the worker thread running it
    result,         \* per capability: the dictionary its thread returned
    saw,            \* per capability: what its thread read from the state
    ex_pc,          \* position inside the executor call
    ex_i,           \* index of the future the collector loop waits for
    ex_index,       \* batch_index, the cursor the executor call read
    ex_batch,       \* current_batch of the executor call
    ex_results,     \* the results dictionary of the executor call
    last_call,      \* the last finished executor call: cursor read, tasks run, update
    agent_out,      \* per capability: the AgentOutput its coroutine built
    timed_out,      \* tasks whose future.result(timeout) timed out
    snapshot,       \* the state dictionary as it was when the current call began
    exec_log,       \* batch indices executed, in order
    node_calls,     \* calls of parallel_agents_node made in this run
    writes          \* <<field, task>> for every output field written to the state

planVars == <<plan_tasks, plan_batches, plan_pc>>

runVars ==
    <<impl, pc, state, thread, result, saw, ex_pc, ex_i, ex_index, ex_batch,
      ex_results, last_call, agent_out, timed_out, snapshot, exec_log, node_calls, writes>>

routerVars == <<rt_kind, rt_llm, rt_tracing, rt_request, rt_other, rt_results>>

workflowVars ==
    <<wf_pc, wf_file, wf_request, wf_text, wf_initial, wf_graph, wf_final, wf_exc,
      wf_result, wf_trace_failed>>

routingVars == <<rl_state, rl_channel>>

apiVars == <<api_pc, api_uploads, api_fs, api_responses, sc_last, sc_backend>>

complianceVars == <<ca_content, ca_result>>

harnessVars == <<planVars, routerVars, workflowVars, routingVars, apiVars, complianceVars>>

vars == <<harnessVars, runVars>>

\* ------------------------------------------------------------ task router
\* A token of the comma-split, lower-cased LLM response: the capability names
\* it contains as substrings, in the order they are mentioned, and whether the
\* token is exactly a capability name.
Tok(mentions, exact) == [mentions |-> mentions, exact |-> exact]

Tokens ==
    {Tok(<<c>>, TRUE) : c \in CapSet}
        \cup {Tok(<<>>, FALSE),
              Tok(<<"analyze">>, FALSE),
              Tok(<<"translate", "summarize">>, FALSE)}

Responses == UNION {[1..n -> Tokens] : n \in 1..MaxResp}

\* The outcome of chain.invoke: it raises, or answers with a response
LLMOutcomes ==
    {[raised |-> TRUE, response |-> <<>>]}
        \cup {[raised |-> FALSE, response |-> r] : r \in Responses}

\* The keyword lists of _keyword_fallback, one per capability
Keywords ==
    [translate |-> {"translate", "arabic", "arabic (ar)", "translate (ar)"},
     analyze |-> {"analyze", "analysis", "audit", "assess", "review", "brief"},
     summarize |-> {"summarize", "summary", "tldr", "brief overview", "short"},
     recommend |-> {"recommend", "suggestion", "ideas", "what should", "next steps"},
     ideate |-> {"idea", "ideas", "campaign", "headline", "tagline", "concept"},
     copywrite |-> {"email", "subject", "copy", "landing", "ad", "headline", "cta"},
     compliance |-> {"gdpr", "can-spam", "privacy", "compliance", "opt-out", "unsubscribe"}]

\* Phrases a lower-cased request text may contain, each with the keywords
\* that are substrings of it ('word in request_lower').
Vocabulary ==
    ("translate" :> {"translate"}) @@ ("arabic" :> {"arabic"})
        @@ ("analyze" :> {"analyze"}) @@ ("brief overview" :> {"brief", "brief overview"})
        @@ ("summary" :> {"summary"}) @@ ("recommend" :> {"recommend"})
        @@ ("ideas" :> {"idea", "ideas"}) @@ ("headline" :> {"headline", "ad"})
        @@ ("download" :> {"ad"}) @@ ("email copy" :> {"email", "copy"})
        @@ ("campaign" :> {"campaign"}) @@ ("gdpr" :> {"gdpr"})
        @@ ("full report" :> {})

\* A user request, as the set of vocabulary phrases its text contains
AllRequests == {r \in SUBSET DOMAIN Vocabulary : Cardinality(r) <= MaxWords}

FullReport == {"full report"}
TranslateAndAnalyze == {"translate", "arabic", "analyze"}

\* The requests the workflow is run with
Requests == {FullReport, TranslateAndAnalyze, {"summary", "analyze", "recommend", "gdpr"}}

\* any(word in request_lower for word in words)
AnyWordIn(words, request) == \E p \in request : Vocabulary[p] \cap words # {}

\* for valid in valid_steps: if valid in task and valid not in filtered_tasks
RECURSIVE FirstValid(_, _, _)
FirstValid(token, filtered, i) ==
    IF i > Len(Capabilities)
    THEN <<>>
    ELSE IF Capabilities[i] \in Range(token.mentions) /\ Capabilities[i] \notin Range(filtered)
         THEN <<Capabilities[i]>>
         ELSE FirstValid(token, filtered, i + 1)

RECURSIVE FilterTasks(_, _, _)
FilterTasks(tasks, i, filtered) ==
    IF i > Len(tasks)
    THEN filtered
    ELSE FilterTasks(tasks, i + 1, filtered \o FirstValid(tasks[i], filtered, 1))

\* mutant: summarize is appended after the tasks matched before it
InsertSummarize_Append(tasks) == Append(tasks, "summarize")

\* tasks.insert(0, "summarize")
InsertSummarize(tasks) == <<"summarize">> \o tasks

\* the body of _keyword_fallback from the list 'tasks' it starts with
KeywordScan(tasks, request) ==
    LET t1 == IF AnyWordIn(Keywords["translate"], request)
              THEN Append(tasks, "translate") ELSE tasks
        t2 == IF AnyWordIn(Keywords["analyze"], request) THEN Append(t1, "analyze") ELSE t1
        t3 == IF AnyWordIn(Keywords["summarize"], request) /\ "summarize" \notin Range(t2)
              THEN InsertSummarize(t2) ELSE t2
        t4 == IF AnyWordIn(Keywords["recommend"], request) THEN Append(t3, "recommend") ELSE t3
        t5 == IF AnyWordIn(Keywords["ideate"], request) THEN Append(t4, "ideate") ELSE t4
        t6 == IF AnyWordIn(Keywords["copywrite"], request) THEN Append(t5, "copywrite") ELSE t5
        t7 == IF AnyWordIn(Keywords["compliance"], request) THEN Append(t6, "compliance") ELSE t6
    IN  IF t7 = <<>> THEN <<"analyze">> ELSE t7

\* mutant: the list built by the earlier invocation is kept and extended
keyword_fallback_Remembering(request) ==
    KeywordScan(IF rt_results = <<>> THEN <<>> ELSE rt_results[Len(rt_results)].tasks,
                request)

keyword_fallback(request) == KeywordScan(<<>>, request)

\* the body of RouterAgent.decide
decide(llm, request) ==
    IF llm.raised
    THEN keyword_fallback(request)
    ELSE LET filtered_tasks == FilterTasks(llm.response, 1, <<>>)
         IN  IF filtered_tasks = <<>> THEN keyword_fallback(request) ELSE filtered_tasks

\* What the tracing calls of the decorator do: there is no client, they
\* succeed, or one of them raises
TracingOutcomes == {"no client", "ok", "raises"}

\* decide as its callers see it, wrapped by @trace_agent_execution: the
\* spans are opened outside any handler and an exception is re-raised
trace_agent_execution(tracing, tasks) ==
    IF tracing = "raises"
    THEN [raised |-> TRUE, tasks |-> <<>>]
    ELSE [raised |-> FALSE, tasks |-> tasks]

\* ------------------------------------------------------------ dictionaries
EmptyDict == [k \in {} |-> k]

Get(d, k, default) == IF k \in DOMAIN d THEN d[k] ELSE default

\* dict.update: the keys of u overwrite or extend d
Update(d, u) == [k \in DOMAIN d \cup DOMAIN u |-> IF k \in DOMAIN u THEN u[k] ELSE d[k]]

\* The coordinator merges the update a node returns into the workflow state
Merge(s, u) == Update(s, u)

\* The state field each capability's result is stored under
state_key(agent_name) ==
    CASE agent_name = "summarize" -> "summary"
      [] agent_name = "translate" -> "translation"
      [] agent_name = "analyze" -> "analysis"
      [] agent_name = "recommend" -> "recommendation"
      [] agent_name = "ideate" -> "ideation"
      [] agent_name = "copywrite" -> "copywriting"
      [] agent_name = "compliance" -> "compliance"
      [] OTHER -> "unknown_output"

OutputFields == {state_key(c) : c \in CapSet}


\* ---------------------------------------------------------- planner harness
\* every task list over the seven capability names, duplicates included
TaskLists == UNION {[1..n -> CapSet] : n \in 0..MaxTasks}

NoThreads == [c \in CapSet |-> "idle"]
NoDicts == [c \in CapSet |-> EmptyDict]
NoCall == [kind |-> "none", index |-> 0, ran |-> {}, update |-> EmptyDict]

PlanOff == plan_tasks = <<>> /\ plan_batches = <<>> /\ plan_pc = "off"

NoLLM == [raised |-> TRUE, response |-> <<>>]

RouterOff ==
    /\ rt_kind = "off" /\ rt_llm = NoLLM /\ rt_tracing = "no client"
    /\ rt_request = {} /\ rt_other = {} /\ rt_results = <<>>

NoFile == [exists |-> FALSE, supported |-> FALSE, small |-> FALSE,
           readable |-> FALSE, text |-> ""]

NoException == [kind |-> "none", message |-> ""]

WorkflowOff ==
    /\ wf_pc = "off" /\ wf_file = NoFile /\ wf_request = {} /\ wf_text = ""
    /\ wf_initial = EmptyDict /\ wf_graph = "not invoked" /\ wf_final = EmptyDict
    /\ wf_exc = NoException /\ wf_result = EmptyDict /\ wf_trace_failed = FALSE

RoutingOff == rl_state = EmptyDict /\ rl_channel = <<>>

NoScore == [called |-> FALSE]

\* ComplianceAgent.run has not been called
NotRun == [status |-> "not run"]

ComplianceOff == ca_content = <<>> /\ ca_result = NotRun

ApiOff ==
    /\ api_pc = <<>> /\ api_uploads = <<>> /\ api_fs = EmptyDict
    /\ api_responses = <<>> /\ sc_last = NoScore /\ sc_backend = {}

RunOff ==
    /\ impl = "batch" /\ pc = "off" /\ state = EmptyDict
    /\ thread = NoThreads /\ result = NoDicts /\ saw = NoDicts
    /\ ex_pc = "idle" /\ ex_i = 0 /\ ex_index = 0 /\ ex_batch = <<>>
    /\ ex_results = EmptyDict /\ last_call = NoCall /\ agent_out = NoDicts
    /\ timed_out = {} /\ snapshot = EmptyDict /\ exec_log = <<>> /\ node_calls = 0 /\ writes = <<>>

InitPlan ==
    /\ plan_tasks \in TaskLists
    /\ plan_batches = <<>>
    /\ plan_pc = "input"
    /\ RouterOff
    /\ WorkflowOff
    /\ RoutingOff
    /\ ApiOff
    /\ ComplianceOff
    /\ RunOff

PlanCall ==
    /\ plan_pc = "input"
    /\ plan_batches' = group_parallel_agents(plan_tasks)
    /\ plan_pc' = "done"
    /\ UNCHANGED <<plan_tasks, routerVars, workflowVars, routingVars, apiVars, complianceVars, runVars>>

NextPlan == PlanCall

SpecPlan == InitPlan /\ [][NextPlan]_vars

\* ----------------------------------------------------------- router harness
\* RouterAgent.decide called once on every LLM outcome, tracing outcome and
\* request; _keyword_fallback called repeatedly on a request and on the
\* request of an unrelated invocation.
InitRouter ==
    /\ PlanOff
    /\ WorkflowOff
    /\ RoutingOff
    /\ ApiOff
    /\ ComplianceOff
    /\ RunOff
    /\ rt_results = <<>>
    /\ \/ /\ rt_kind = "decide"
          /\ rt_llm \in LLMOutcomes
          /\ rt_tracing \in TracingOutcomes
          /\ rt_request \in Requests
          /\ rt_other = {}
       \/ /\ rt_kind = "fallback"
          /\ rt_llm = NoLLM
          /\ rt_tracing = "no client"
          /\ rt_request \in AllRequests \cup Requests
          /\ rt_other \in Requests

DecideCall ==
    /\ rt_kind = "decide"
    /\ rt_results = <<>>
    /\ LET out == trace_agent_execution(rt_tracing, decide(rt_llm, rt_request))
       IN  rt_results' = <<[request |-> rt_request, raised |-> out.raised, tasks |-> out.tasks]>>
    /\ UNCHANGED <<planVars, rt_kind, rt_llm, rt_tracing, rt_request, rt_other,
                   workflowVars, routingVars, apiVars, complianceVars, runVars>>

FallbackCall ==
    /\ rt_kind = "fallback"
    /\ Len(rt_results) < MaxCalls
    /\ \E r \in {rt_request, rt_other} :
           rt_results' = Append(rt_results,
               [request |-> r, raised |-> FALSE, tasks |-> keyword_fallback(r)])
    /\ UNCHANGED <<planVars, rt_kind, rt_llm, rt_tracing, rt_request, rt_other,
                   workflowVars, routingVars, apiVars, complianceVars, runVars>>

NextRouter == DecideCall \/ FallbackCall

SpecRouter == InitRouter /\ [][NextRouter]_vars


\* ------------------------------------------------------------- coordinator
\* The stage at which the coordinator invokes each node: extraction, then
\* refinement, then routing (entered again between executor calls), then the
\* executor until the batches are consumed.
CoordinatorRuns(node) ==
    CASE node = "extraction" -> pc = "Init"
      [] node = "refiner" -> pc = "Extracted"
      [] node = "router" ->
             pc = "Refined" \/ (pc = "Routed" /\ ex_pc = "idle") \/ pc = "TaskDone"
      [] node = "executor" -> pc \in {"Routed", "Done"}
      [] OTHER -> FALSE

\* run_document_workflow builds the initial state from the loaded document
Init ==
    /\ PlanOff
    /\ RouterOff
    /\ WorkflowOff
    /\ RoutingOff
    /\ ApiOff
    /\ ComplianceOff
    /\ impl \in {"batch", "agents", "graph"}
    /\ pc = "Init"
    /\ \E r \in Requests :
           state = [raw_text |-> "doc", user_request |-> r,
                    source_lang |-> "en", errors |-> <<>>]
    /\ thread = NoThreads /\ result = NoDicts /\ saw = NoDicts
    /\ ex_pc = "idle" /\ ex_i = 0 /\ ex_index = 0 /\ ex_batch = <<>>
    /\ ex_results = EmptyDict /\ last_call = NoCall /\ agent_out = NoDicts
    /\ timed_out = {} /\ snapshot = EmptyDict /\ exec_log = <<>> /\ node_calls = 0 /\ writes = <<>>

execVars ==
    <<thread, result, saw, ex_pc, ex_i, ex_index, ex_batch, ex_results, last_call,
      agent_out, timed_out, snapshot, exec_log, node_calls, writes>>

\* the structured error ExtractorAgent.run returns when its chain raises
ExtractionError == [title |-> "Error", summary |-> "Extraction failed"]

\* what ExtractorAgent.run returns: the parsed brief, or the structured error
ExtractorOutcomes == {[title |-> "Brief", summary |-> "parsed"], ExtractionError}

extraction_node ==
    /\ CoordinatorRuns("extraction")
    /\ \E response \in ExtractorOutcomes :
           LET evaluations == Append(Get(state, "evaluations", <<>>), "extraction")
           IN  state' = Merge(state, [extraction |-> response, evaluations |-> evaluations])
    /\ pc' = "Extracted"
    /\ UNCHANGED <<harnessVars, impl, execVars>>

refiner_node ==
    /\ CoordinatorRuns("refiner")
    /\ \E refined_request \in Requests :
           LET evaluations == Append(Get(state, "evaluations", <<>>), "refinement")
           IN  state' = Merge(state, [user_request |-> refined_request,
                                      evaluations |-> evaluations])
    /\ pc' = "Refined"
    /\ UNCHANGED <<harnessVars, impl, execVars>>

\* mutant: the router plans again although a plan is already there
AlreadyRouted_Never(s) == FALSE

\* the negation of 'not state.get("next_steps")'
AlreadyRouted(s) == Get(s, "next_steps", <<>>) # <<>>

\* mutant: the plan is computed and the indices reset on every entry
RouterUpdate_Replans(s, decisions) ==
    [next_steps |-> decisions,
     parallel_batches |-> group_parallel_agents(decisions),
     current_batch_index |-> 0,
     current_step_index |-> 0]

\* the update router_node returns; the router node of the compiled graph
\* stores the plan and the step index only
RouterUpdate(s, decisions) ==
    IF ~AlreadyRouted(s)
    THEN IF impl = "graph"
         THEN [next_steps |-> decisions, current_step_index |-> 0]
         ELSE [next_steps |-> decisions,
               parallel_batches |-> group_parallel_agents(decisions),
               current_batch_index |-> 0,
               current_step_index |-> 0]
    ELSE EmptyDict

\* router_node: agent.decide is called when no plan is stored; an exception
\* leaving decide is not handled by the node and fails the run
router_node ==
    /\ CoordinatorRuns("router")
    /\ IF AlreadyRouted(state)
       THEN /\ state' = Merge(state, RouterUpdate(state, state["next_steps"]))
            /\ pc' = "Routed"
       ELSE \E llm \in LLMOutcomes, tracing \in TracingOutcomes :
                LET out == trace_agent_execution(tracing, decide(llm, state["user_request"]))
                IN  IF out.raised
                    THEN state' = state /\ pc' = "Failed"
                    ELSE /\ state' = Merge(state, RouterUpdate(state, out.tasks))
                         /\ pc' = "Routed"
    /\ UNCHANGED <<harnessVars, impl, execVars>>


\* ---------------------------------------------------------- batch executor
Batches == Get(state, "parallel_batches", <<>>)
BatchIndex == Get(state, "current_batch_index", 0)

Finished(t) == thread[t] \in {"returned", "raised"}

\* what _execute_agent reads from the state it was given
AgentInput(s) ==
    [content |-> Get(s, "extraction", Get(s, "raw_text", "")),
     user_request |-> Get(s, "user_request", {}),
     source_lang |-> Get(s, "source_lang", "none")]

\* the value agent.run returns for a capability
AgentOutput(agent_name) == [produced_by |-> agent_name]

\* mutant: ideate stores its output under the recommender's key
execute_agent_result_Collide(agent_name) ==
    IF agent_name = "ideate"
    THEN [k \in {"recommendation"} |-> AgentOutput(agent_name)]
    ELSE [k \in {state_key(agent_name)} |-> AgentOutput(agent_name)]

\* return {state_key: output}
execute_agent_result(agent_name) ==
    [k \in {state_key(agent_name)} |-> AgentOutput(agent_name)]

\* mutant: the cursor is written back without the increment
CursorAfter_Same(batch_index) == batch_index

\* state["current_batch_index"] = batch_index + 1
CursorAfter(batch_index) == batch_index + 1

\* mutant: the pool is shut down without waiting for its workers
PoolShutdown_NoWait(batch) == TRUE

\* leaving 'with ThreadPoolExecutor(...)' waits for every submitted worker
PoolShutdown(batch) == \A t \in Range(batch) : Finished(t)

\* parallel_batch_executor up to the point where the batch's agents run
ExecutorCall ==
    /\ impl = "batch"
    /\ CoordinatorRuns("executor")
    /\ ex_pc = "idle"
    /\ IF BatchIndex >= Len(Batches)
       THEN /\ last_call' = [kind |-> "empty", index |-> BatchIndex, ran |-> {},
                             update |-> EmptyDict]
            /\ state' = Merge(state, EmptyDict)
            /\ UNCHANGED <<thread, result, saw, ex_pc, ex_i, ex_index, ex_batch,
                           ex_results, snapshot, exec_log, node_calls>>
       ELSE LET current_batch == Batches[BatchIndex + 1]
            IN  /\ ex_index' = BatchIndex
                /\ ex_batch' = current_batch
                /\ ex_results' = EmptyDict
                /\ snapshot' = state
                /\ exec_log' = Append(exec_log, BatchIndex)
                /\ thread' = [c \in CapSet |->
                                 IF c \in Range(current_batch) THEN "running" ELSE thread[c]]
                /\ result' = [c \in CapSet |->
                                 IF c \in Range(current_batch) THEN EmptyDict ELSE result[c]]
                /\ saw' = [c \in CapSet |->
                              IF c \in Range(current_batch) THEN EmptyDict ELSE saw[c]]
                /\ IF Len(current_batch) = 1
                   THEN ex_pc' = "single" /\ ex_i' = 0
                   ELSE ex_pc' = "collect" /\ ex_i' = 1
                /\ UNCHANGED <<state, last_call>>
    /\ UNCHANGED <<harnessVars, impl, pc, agent_out, timed_out, node_calls, writes>>

\* _execute_agent: the agent runs and its output is returned under its key
AgentReturns(t) ==
    /\ impl = "batch"
    /\ thread[t] = "running"
    /\ saw' = [saw EXCEPT ![t] = AgentInput(state)]
    /\ result' = [result EXCEPT ![t] = execute_agent_result(t)]
    /\ thread' = [thread EXCEPT ![t] = "returned"]
    /\ UNCHANGED <<harnessVars, impl, pc, state, ex_pc, ex_i, ex_index, ex_batch,
                   ex_results, last_call, agent_out, timed_out, snapshot, exec_log, node_calls, writes>>

\* _execute_agent: anything raised inside is caught, logged, and {} returned
AgentRaises(t) ==
    /\ impl = "batch"
    /\ thread[t] = "running"
    /\ saw' = [saw EXCEPT ![t] = AgentInput(state)]
    /\ result' = [result EXCEPT ![t] = EmptyDict]
    /\ thread' = [thread EXCEPT ![t] = "raised"]
    /\ UNCHANGED <<harnessVars, impl, pc, state, ex_pc, ex_i, ex_index, ex_batch,
                   ex_results, last_call, agent_out, timed_out, snapshot, exec_log, node_calls, writes>>

\* the agent's blocking call never comes back
AgentHangs(t) ==
    /\ impl = "batch"
    /\ thread[t] = "running"
    /\ thread' = [thread EXCEPT ![t] = "hung"]
    /\ UNCHANGED <<harnessVars, impl, pc, state, result, saw, ex_pc, ex_i, ex_index,
                   ex_batch, ex_results, last_call, agent_out, timed_out, snapshot, exec_log, node_calls, writes>>

CollectorAdvance ==
    /\ ex_i' = ex_i + 1
    /\ ex_pc' = IF ex_i = Len(ex_batch) THEN "join" ELSE "collect"

\* _execute_batch_parallel: future.result(timeout) returns the agent's dict
CollectResult ==
    /\ ex_pc = "collect"
    /\ Finished(ex_batch[ex_i])
    /\ ex_results' = Update(ex_results, result[ex_batch[ex_i]])
    /\ CollectorAdvance
    /\ UNCHANGED <<harnessVars, impl, pc, state, thread, result, saw, ex_index, ex_batch,
                   last_call, agent_out, timed_out, snapshot, exec_log, node_calls, writes>>

\* _execute_batch_parallel: future.result(timeout) raises TimeoutError, which
\* is logged; the loop goes on to the next future
CollectTimeout ==
    /\ ex_pc = "collect"
    /\ ~Finished(ex_batch[ex_i])
    /\ timed_out' = timed_out \cup {ex_batch[ex_i]}
    /\ CollectorAdvance
    /\ UNCHANGED <<harnessVars, impl, pc, state, thread, result, saw, ex_index, ex_batch,
                   ex_results, last_call, agent_out, snapshot, exec_log, node_calls, writes>>

\* results.update(result) of each collected task, as <<field, task>> records
RECURSIVE WritesOf(_)
WritesOf(batch) ==
    IF batch = <<>>
    THEN <<>>
    ELSE LET t == Head(batch)
         IN  (IF DOMAIN result[t] = {}
              THEN <<>>
              ELSE <<<<CHOOSE k \in DOMAIN result[t] : TRUE, t>>>>)
                 \o WritesOf(Tail(batch))

\* parallel_batch_executor from the end of the batch: the results are put in
\* all_results, the cursor is written into the state, all_results returned
\* and merged into the workflow state
ExecutorReturn ==
    /\ \/ ex_pc = "single" /\ Finished(ex_batch[1])
       \/ ex_pc = "join" /\ PoolShutdown(ex_batch)
    /\ LET results == IF ex_pc = "single" THEN result[ex_batch[1]] ELSE ex_results
           all_results == Update(EmptyDict, results)
           collected == IF ex_pc = "single"
                        THEN ex_batch
                        ELSE SelectSeq(ex_batch, LAMBDA t : t \notin timed_out)
       IN  /\ state' = Merge([k \in DOMAIN state \cup {"current_batch_index"} |->
                                 IF k = "current_batch_index"
                                 THEN CursorAfter(ex_index) ELSE state[k]],
                             all_results)
           /\ last_call' = [kind |-> "batch", index |-> ex_index,
                            ran |-> Range(ex_batch), update |-> all_results]
           /\ writes' = writes \o WritesOf(collected)
    /\ ex_pc' = "idle"
    /\ UNCHANGED <<harnessVars, impl, pc, thread, result, saw, ex_i, ex_index, ex_batch,
                   ex_results, agent_out, timed_out, snapshot, exec_log, node_calls>>

\* the coordinator is done once the cursor has reached the end of the batches
CoordinatorDone ==
    /\ impl = "batch"
    /\ pc = "Routed"
    /\ ex_pc = "idle"
    /\ BatchIndex = Len(Batches)
    /\ pc' = "Done"
    /\ UNCHANGED <<harnessVars, impl, state, execVars>>


\* ---------------------------------------------------- concurrent agents node
\* mutant: every node function returns its output under 'extraction'
node_key_Extraction(agent_name) == "extraction"

\* the key under which each node function returns its agent's output
node_key(agent_name) ==
    CASE agent_name = "analyze" -> "analysis"
      [] agent_name = "recommend" -> "recommendation"
      [] agent_name = "ideate" -> "ideation"
      [] agent_name = "compliance" -> "compliance"
      [] agent_name = "summarize" -> "summary"
      [] agent_name = "translate" -> "translation"
      [] agent_name = "copywrite" -> "copywriting"

\* the legacy field parallel_agents_node writes for a completed agent
legacy_key(agent_name) ==
    CASE agent_name = "analyze" -> "analysis"
      [] agent_name = "recommend" -> "recommendation"
      [] agent_name = "ideate" -> "ideation"
      [] agent_name = "summarize" -> "summary"
      [] agent_name = "translate" -> "translation"
      [] agent_name = "copywrite" -> "copywriting"
      [] agent_name = "compliance" -> "compliance"

NoneValue == [none |-> TRUE]

\* str(value)
Str(value) == [str |-> value]

\* what a node function reads from the state it was given
NodeInput(s) ==
    [raw_text |-> Get(s, "raw_text", ""),
     extraction |-> Get(s, "extraction", ""),
     user_request |-> Get(s, "user_request", {}),
     source_lang |-> Get(s, "source_lang", "none"),
     current_step_index |-> Get(s, "current_step_index", 0),
     evaluations |-> Get(s, "evaluations", <<>>)]

\* compliance_node: the copywriting if present, else the summary, else the
\* string form of the extraction
to_check(s) ==
    IF Get(s, "copywriting", NoneValue) # NoneValue
    THEN s["copywriting"]
    ELSE IF Get(s, "summary", NoneValue) # NoneValue
         THEN s["summary"]
         ELSE Str(Get(s, "extraction", ""))

\* what the node function of agent_name reads from the state it was given
NodeRead(agent_name, s) ==
    IF agent_name = "compliance"
    THEN Update(NodeInput(s), [to_check |-> to_check(s)])
    ELSE NodeInput(s)

\* the list a node's returned "evaluations" refers to: the list object held
\* by the state when the state has one, else the node's own fresh list
Evaluations(agent_result, s) ==
    IF "evaluations" \notin DOMAIN agent_result
    THEN <<>>
    ELSE IF agent_result["evaluations"].shared
         THEN s["evaluations"]
         ELSE agent_result["evaluations"].own

\* parallel_agents_node up to asyncio.gather: one task per agent of
\* next_steps, each running its node function on a worker thread
AgentsCall ==
    /\ impl = "agents"
    /\ pc = "Routed"
    /\ ex_pc = "idle"
    /\ LET agents_to_run == Get(state, "next_steps", <<>>)
       IN  IF agents_to_run = <<>>
           THEN /\ pc' = "Done"
                /\ UNCHANGED <<thread, ex_pc, ex_batch, snapshot>>
           ELSE /\ ex_batch' = agents_to_run
                /\ snapshot' = state
                /\ thread' = [c \in CapSet |->
                                 IF c \in Range(agents_to_run) THEN "running" ELSE thread[c]]
                /\ ex_pc' = "gather"
                /\ pc' = pc
    /\ node_calls' = node_calls + 1
    /\ UNCHANGED <<harnessVars, impl, state, result, saw, ex_i, ex_index, ex_results,
                   last_call, agent_out, timed_out, exec_log, writes>>

\* a node function (analysis_node, ...): the agent and the judge run, the
\* evaluation is appended to state.get("evaluations", []) and the node's
\* update is returned
NodeReturns(t) ==
    /\ impl = "agents"
    /\ thread[t] = "running"
    /\ LET shared == "evaluations" \in DOMAIN state
           evaluations == Append(Get(state, "evaluations", <<>>), t)
       IN  /\ saw' = [saw EXCEPT ![t] = NodeRead(t, state)]
           /\ state' = IF shared THEN [state EXCEPT !["evaluations"] = evaluations] ELSE state
           /\ result' = [result EXCEPT ![t] =
                  [k \in {node_key(t), "current_step_index", "evaluations"} |->
                      CASE k = "current_step_index" -> Get(state, "current_step_index", 0) + 1
                        [] k = "evaluations" ->
                               [shared |-> shared, own |-> IF shared THEN <<>> ELSE evaluations]
                        [] OTHER -> AgentOutput(t)]]
    /\ thread' = [thread EXCEPT ![t] = "returned"]
    /\ UNCHANGED <<harnessVars, impl, pc, ex_pc, ex_i, ex_index, ex_batch, ex_results,
                   last_call, agent_out, timed_out, snapshot, exec_log, node_calls, writes>>

\* a node function raises before its evaluation is appended
NodeRaises(t) ==
    /\ impl = "agents"
    /\ thread[t] = "running"
    /\ saw' = [saw EXCEPT ![t] = NodeRead(t, state)]
    /\ thread' = [thread EXCEPT ![t] = "raised"]
    /\ UNCHANGED <<harnessVars, impl, pc, state, result, ex_pc, ex_i, ex_index, ex_batch,
                   ex_results, last_call, agent_out, timed_out, snapshot, exec_log, node_calls, writes>>

\* execute_agent_with_tracing after the await: the AgentOutput is built from
\* the node's update, or from the exception it raised
CoroutineResumes(t) ==
    /\ ex_pc = "gather"
    /\ t \in Range(ex_batch)
    /\ Finished(t)
    /\ agent_out[t] = EmptyDict
    /\ agent_out' = [agent_out EXCEPT ![t] =
           IF thread[t] = "returned"
           THEN LET agent_result == result[t]
                    evaluations == Evaluations(agent_result, state)
                IN  [agent_name |-> t,
                     output |-> Get(agent_result, t, agent_result),
                     status |-> "completed",
                     error |-> "",
                     evaluation |-> IF evaluations # <<>>
                                    THEN evaluations[Len(evaluations)] ELSE "",
                     validation_passed |-> TRUE]
           ELSE [agent_name |-> t,
                 output |-> NoneValue,
                 status |-> "failed",
                 error |-> "Error: text",
                 evaluation |-> "",
                 validation_passed |-> FALSE]]
    /\ UNCHANGED <<harnessVars, impl, pc, state, thread, result, saw, ex_pc, ex_i, ex_index,
                   ex_batch, ex_results, last_call, timed_out, snapshot, exec_log, node_calls, writes>>

\* mutant: every agent of the call counts as completed
Completed_All(batch) == batch

Completed(batch) == SelectSeq(batch, LAMBDA t : agent_out[t].status = "completed")
Failed(batch) == SelectSeq(batch, LAMBDA t : agent_out[t].status = "failed")

RECURSIVE LegacyWrites(_)
LegacyWrites(batch) ==
    IF batch = <<>>
    THEN <<>>
    ELSE <<<<legacy_key(Head(batch)), Head(batch)>>>> \o LegacyWrites(Tail(batch))

\* parallel_agents_node after asyncio.gather: the outputs are processed, the
\* state is copied and updated, and the updated state is returned
GatherDone ==
    /\ ex_pc = "gather"
    /\ \A t \in Range(ex_batch) : agent_out[t] # EmptyDict
    /\ LET completed == Range(Completed(ex_batch))
           failed == Range(Failed(ex_batch))
           agent_outputs == [t \in Range(ex_batch) |-> agent_out[t]]
           agent_errors == [t \in failed |-> agent_out[t].error]
           agent_evaluations ==
               [t \in {u \in Range(ex_batch) : agent_out[u].evaluation # ""} |->
                   <<agent_out[t].evaluation>>]
           legacy_updates ==
               [f \in {legacy_key(t) : t \in completed} |->
                   agent_out[CHOOSE t \in completed : legacy_key(t) = f].output]
           updated_state ==
               Update(Update(state,
                             [agent_outputs |-> agent_outputs,
                              agent_errors |-> agent_errors,
                              agent_evaluations |-> agent_evaluations,
                              completed_agents |->
                                  Get(state, "completed_agents", {}) \cup completed,
                              pending_agents |-> <<>>]),
                      legacy_updates)
       IN  /\ state' = Merge(state, updated_state)
           /\ writes' = writes \o LegacyWrites(Completed(ex_batch))
    /\ ex_pc' = "idle"
    /\ pc' = "Done"
    /\ UNCHANGED <<harnessVars, impl, thread, result, saw, ex_i, ex_index, ex_batch,
                   ex_results, last_call, agent_out, timed_out, snapshot, exec_log, node_calls>>

\* The coordinator invokes parallel_agents_node again on the state the node
\* returned: the node has no cursor and runs every agent of next_steps anew.
AgentsRecall ==
    /\ impl = "agents"
    /\ pc = "Done"
    /\ ex_pc = "idle"
    /\ node_calls \in 1..(MaxNodeCalls - 1)
    /\ LET agents_to_run == Get(state, "next_steps", <<>>)
       IN  /\ agents_to_run # <<>>
           /\ ex_batch' = agents_to_run
           /\ snapshot' = state
           /\ thread' = [c \in CapSet |->
                            IF c \in Range(agents_to_run) THEN "running" ELSE thread[c]]
           /\ result' = [c \in CapSet |->
                            IF c \in Range(agents_to_run) THEN EmptyDict ELSE result[c]]
           /\ saw' = [c \in CapSet |->
                         IF c \in Range(agents_to_run) THEN EmptyDict ELSE saw[c]]
           /\ agent_out' = [c \in CapSet |->
                               IF c \in Range(agents_to_run) THEN EmptyDict ELSE agent_out[c]]
    /\ ex_pc' = "gather"
    /\ pc' = "Routed"
    /\ node_calls' = node_calls + 1
    /\ UNCHANGED <<harnessVars, impl, state, ex_i, ex_index, ex_results, last_call,
                   timed_out, exec_log, writes>>

\* ------------------------------------------------------------ compiled graph
NextSteps == Get(state, "next_steps", <<>>)
StepIndex == Get(state, "current_step_index", 0)

\* the channel 'to_<task>'
Channel(task) == <<"to", task>>

\* mutant: the channel is returned without the check against valid_channels
routing_logic_Unchecked(s) ==
    LET steps == Get(s, "next_steps", <<>>)
        index == Get(s, "current_step_index", 0)
    IN  IF index < Len(steps) THEN Channel(steps[index + 1]) ELSE <<"end">>

\* routing_logic: the channel of the task at current_step_index, or 'end'
routing_logic(s) ==
    LET steps == Get(s, "next_steps", <<>>)
        index == Get(s, "current_step_index", 0)
    IN  IF index < Len(steps)
        THEN IF steps[index + 1] \in CapSet THEN Channel(steps[index + 1]) ELSE <<"end">>
        ELSE <<"end">>

\* mutant: the task node returns its output without raising the step counter
task_node_KeepsIndex(t) ==
    /\ impl = "graph"
    /\ pc = "Routed"
    /\ routing_logic(state) = Channel(t)
    /\ LET evaluations == Append(Get(state, "evaluations", <<>>), t)
       IN  state' = Merge(state,
               [k \in {node_key(t), "evaluations"} |->
                   CASE k = "evaluations" -> evaluations
                     [] OTHER -> AgentOutput(t)])
    /\ saw' = [saw EXCEPT ![t] = NodeRead(t, state)]
    /\ thread' = [thread EXCEPT ![t] = "returned"]
    /\ writes' = Append(writes, <<node_key(t), t>>)
    /\ pc' = "TaskDone"
    /\ UNCHANGED <<harnessVars, impl, result, ex_pc, ex_i, ex_index, ex_batch,
                   ex_results, last_call, agent_out, timed_out, snapshot, exec_log, node_calls>>

\* a task node of the compiled graph (summarization_node, ...): the agent and
\* the judge run and the node's update is merged into the state
task_node(t) ==
    /\ impl = "graph"
    /\ pc = "Routed"
    /\ routing_logic(state) = Channel(t)
    /\ LET evaluations == Append(Get(state, "evaluations", <<>>), t)
       IN  state' = Merge(state,
               [k \in {node_key(t), "current_step_index", "evaluations"} |->
                   CASE k = "current_step_index" -> StepIndex + 1
                     [] k = "evaluations" -> evaluations
                     [] OTHER -> AgentOutput(t)])
    /\ saw' = [saw EXCEPT ![t] = NodeRead(t, state)]
    /\ thread' = [thread EXCEPT ![t] = "returned"]
    /\ writes' = Append(writes, <<node_key(t), t>>)
    /\ pc' = "TaskDone"
    /\ UNCHANGED <<harnessVars, impl, result, ex_pc, ex_i, ex_index, ex_batch,
                   ex_results, last_call, agent_out, timed_out, snapshot, exec_log, node_calls>>

\* a task node raises: nothing in the graph handles it and the run fails
task_node_raises(t) ==
    /\ impl = "graph"
    /\ pc = "Routed"
    /\ routing_logic(state) = Channel(t)
    /\ saw' = [saw EXCEPT ![t] = NodeRead(t, state)]
    /\ thread' = [thread EXCEPT ![t] = "raised"]
    /\ pc' = "Failed"
    /\ UNCHANGED <<harnessVars, impl, state, result, ex_pc, ex_i, ex_index, ex_batch,
                   ex_results, last_call, agent_out, timed_out, snapshot, exec_log, node_calls, writes>>

\* routing_logic returns 'end': the graph run is over
GraphEnd ==
    /\ impl = "graph"
    /\ pc = "Routed"
    /\ routing_logic(state) = <<"end">>
    /\ pc' = "Done"
    /\ UNCHANGED <<harnessVars, impl, state, execVars>>

\* ---------------------------------------------------------------- response
StringFields ==
    {"summary", "analysis", "recommendation", "ideation", "copywriting", "translation"}

InternalFields ==
    {"agent_outputs", "agent_metadata", "agent_errors", "agent_evaluations",
     "pending_agents"}

\* _extract_agent_output: a string as it is, the 'output' of an AgentOutput
\* dictionary, the string form of any other dictionary, "" for None
RECURSIVE extract_agent_output(_)
extract_agent_output(value) ==
    IF value = NoneValue
    THEN [produced_by |-> "nobody"]
    ELSE IF DOMAIN value = {"produced_by"}
         THEN value
         ELSE IF "output" \in DOMAIN value
              THEN extract_agent_output(value["output"])
              ELSE Str(value)

\* _clean_response_state
clean_response_state(s) ==
    [k \in DOMAIN s \ InternalFields |->
        IF k \in StringFields
        THEN extract_agent_output(s[k])
        ELSE IF k = "compliance" /\ "output" \in DOMAIN s[k]
             THEN s[k]["output"]
             ELSE s[k]]

\* run_document_workflow has returned
Returned == pc \in {"Done", "Failed"}

\* what run_document_workflow returns: {"error": str(e)} when the graph
\* raised, else the cleaned final state with the trace id
Response ==
    IF pc = "Failed"
    THEN [error |-> "message"]
    ELSE clean_response_state(Update(state, [trace_id |-> "trace"]))

\* ------------------------------------------- run_document_workflow harness
\* run_document_workflow on every file FileLoader can meet, with every
\* tracing call free to succeed or raise and the graph free to return a final
\* state or raise.
Files ==
    [exists : BOOLEAN, supported : BOOLEAN, small : BOOLEAN, readable : BOOLEAN,
     text : {"", "raw doc"}]

\* what one call into the tracing client does
TracingCalls == {"ok", "raises"}

Raise(kind, message) == [kind |-> kind, message |-> message]

\* FileLoader.validate_file: the exception it raises, if any
validate_file(file) ==
    IF ~file.exists
    THEN Raise("ingestion", "File not found")
    ELSE IF ~file.supported
         THEN Raise("ingestion", "File type is not supported")
         ELSE IF ~file.small
              THEN Raise("ingestion", "File exceeds max size")
              ELSE NoException

\* clean_extra_whitespace
clean_extra_whitespace(text) == IF text = "raw doc" THEN "loaded doc" ELSE text

\* BriefValidator.sanitize_text
sanitize_text(text) == IF text = "loaded doc" THEN "doc" ELSE text

\* FileLoader.load: every error of a loader is raised as FileProcessingError
load(file) ==
    IF ~file.readable
    THEN [exc |-> Raise("ingestion", "Failed to process file"), text |-> ""]
    ELSE [exc |-> NoException, text |-> clean_extra_whitespace(file.text)]

\* FileLoader(file_path) followed by loader.load()
FileLoader(file) ==
    IF validate_file(file) # NoException
    THEN [exc |-> validate_file(file), text |-> ""]
    ELSE load(file)

NoTextError == "No text could be extracted from the file."

\* the final states app_graph.ainvoke returns for an initial state: a run
\* whose tasks all wrote their fields, and a run that stored the structured
\* extraction error
GraphFinalStates(initial_state) ==
    {Update(initial_state,
            [extraction |-> [title |-> "Brief", summary |-> "parsed"],
             next_steps |-> <<"summarize">>,
             current_step_index |-> 1,
             summary |-> AgentOutput("summarize")]),
     Update(initial_state,
            [extraction |-> ExtractionError,
             next_steps |-> <<"summarize", "analyze">>,
             current_step_index |-> 2,
             summary |-> AgentOutput("summarize"),
             analysis |-> AgentOutput("analyze")])}

\* the try block is left with an exception: control is in the except clause
Except(exc) ==
    /\ wf_pc' = "handler"
    /\ wf_exc' = exc
    /\ wf_trace_failed' = (wf_trace_failed \/ exc.kind = "tracing")

TracingError == Raise("tracing", "tracing error")

InitWorkflow ==
    /\ PlanOff
    /\ RouterOff
    /\ RoutingOff
    /\ ApiOff
    /\ ComplianceOff
    /\ RunOff
    /\ wf_pc = "start"
    /\ wf_file \in Files
    /\ wf_request \in Requests
    /\ wf_text = ""
    /\ wf_initial = EmptyDict
    /\ wf_graph = "not invoked"
    /\ wf_final = EmptyDict
    /\ wf_exc = NoException
    /\ wf_result = EmptyDict
    /\ wf_trace_failed = FALSE

\* get_langfuse_tracer, propagate_attributes and the workflow span are entered
\* before the try block: an exception of theirs leaves run_document_workflow
open_trace ==
    /\ wf_pc = "start"
    /\ \E tracing \in TracingCalls :
           IF tracing = "raises"
           THEN wf_pc' = "raised" /\ wf_trace_failed' = TRUE
           ELSE wf_pc' = "traced" /\ wf_trace_failed' = wf_trace_failed
    /\ UNCHANGED <<planVars, routerVars, routingVars, apiVars, complianceVars, runVars, wf_file, wf_request, wf_text,
                   wf_initial, wf_graph, wf_final, wf_exc, wf_result>>

\* the file_loading span, FileLoader, the update of the span, and the check
\* for an empty text with its score and trace update
load_file ==
    /\ wf_pc = "traced"
    /\ \E span \in TracingCalls, update \in TracingCalls, score \in TracingCalls :
           LET loaded == FileLoader(wf_file)
           IN  IF span = "raises"
               THEN Except(TracingError) /\ UNCHANGED <<wf_text, wf_result>>
               ELSE IF loaded.exc # NoException
                    THEN Except(loaded.exc) /\ UNCHANGED <<wf_text, wf_result>>
                    ELSE IF update = "raises" \/ (loaded.text = "" /\ score = "raises")
                         THEN Except(TracingError) /\ UNCHANGED <<wf_text, wf_result>>
                         ELSE /\ wf_text' = loaded.text
                              /\ IF loaded.text = ""
                                 THEN /\ wf_pc' = "returned"
                                      /\ wf_result' = [error |-> NoTextError]
                                 ELSE /\ wf_pc' = "loaded"
                                      /\ wf_result' = wf_result
                              /\ UNCHANGED <<wf_exc, wf_trace_failed>>
    /\ UNCHANGED <<planVars, routerVars, routingVars, apiVars, complianceVars, runVars, wf_file, wf_request, wf_initial,
                   wf_graph, wf_final>>

\* sanitising, the brief check, language detection and the initial state
prepare_state ==
    /\ wf_pc = "loaded"
    /\ \E span \in TracingCalls, source_lang \in {"en", "ar"} :
           IF span = "raises"
           THEN Except(TracingError) /\ wf_initial' = wf_initial
           ELSE /\ wf_initial' = [raw_text |-> sanitize_text(wf_text),
                                  user_request |-> wf_request,
                                  source_lang |-> source_lang,
                                  errors |-> <<>>]
                /\ wf_pc' = "ready"
                /\ UNCHANGED <<wf_exc, wf_trace_failed>>
    /\ UNCHANGED <<planVars, routerVars, routingVars, apiVars, complianceVars, runVars, wf_file, wf_request, wf_text,
                   wf_graph, wf_final, wf_result>>

\* the graph_execution span and app_graph.ainvoke
invoke_graph ==
    /\ wf_pc = "ready"
    /\ \E span \in TracingCalls :
           IF span = "raises"
           THEN Except(TracingError) /\ UNCHANGED <<wf_graph, wf_final>>
           ELSE \/ /\ Except(Raise("graph", "graph error"))
                   /\ wf_graph' = "raised"
                   /\ wf_final' = wf_final
                \/ \E final_state \in GraphFinalStates(wf_initial) :
                       /\ wf_final' = final_state
                       /\ wf_graph' = "returned"
                       /\ wf_pc' = "invoked"
                       /\ UNCHANGED <<wf_exc, wf_trace_failed>>
    /\ UNCHANGED <<planVars, routerVars, routingVars, apiVars, complianceVars, runVars, wf_file, wf_request, wf_text,
                   wf_initial, wf_result>>

\* the state run_document_workflow returns after a graph run
workflow_result(final_state) ==
    clean_response_state(Update(final_state, [trace_id |-> "trace"]))

\* after the graph: the span and trace updates, the score, the trace id and
\* the cleaned state
finish_workflow ==
    /\ wf_pc = "invoked"
    /\ \E tracing \in TracingCalls :
           IF tracing = "raises"
           THEN Except(TracingError) /\ wf_result' = wf_result
           ELSE /\ wf_result' = workflow_result(wf_final)
                /\ wf_pc' = "returned"
                /\ UNCHANGED <<wf_exc, wf_trace_failed>>
    /\ UNCHANGED <<planVars, routerVars, routingVars, apiVars, complianceVars, runVars, wf_file, wf_request, wf_text,
                   wf_initial, wf_graph, wf_final>>

\* the except clause: the score and the trace update, then {"error": str(e)};
\* an exception of the two tracing calls leaves run_document_workflow
handle_error ==
    /\ wf_pc = "handler"
    /\ \E tracing \in TracingCalls :
           IF tracing = "raises"
           THEN /\ wf_pc' = "raised"
                /\ wf_trace_failed' = TRUE
                /\ wf_result' = wf_result
           ELSE /\ wf_pc' = "returned"
                /\ wf_result' = [error |-> wf_exc.message]
                /\ wf_trace_failed' = wf_trace_failed
    /\ UNCHANGED <<planVars, routerVars, routingVars, apiVars, complianceVars, runVars, wf_file, wf_request, wf_text,
                   wf_initial, wf_graph, wf_final, wf_exc>>

NextWorkflow ==
    \/ open_trace
    \/ load_file
    \/ prepare_state
    \/ invoke_graph
    \/ finish_workflow
    \/ handle_error

SpecWorkflow == InitWorkflow /\ [][NextWorkflow]_vars

\* --------------------------------------------------- routing_logic harness
\* routing_logic called on states with and without next_steps and
\* current_step_index, with task names outside the seven capabilities, and
\* with the index before, at and past the end of the list.
TaskNames == CapSet \cup {"unknown"}

StepLists == UNION {[1..n -> TaskNames] : n \in 0..MaxTasks}

RoutingStates ==
    {EmptyDict}
    \cup {[next_steps |-> steps] : steps \in StepLists}
    \cup {[current_step_index |-> i] : i \in 0..(MaxTasks + 1)}
    \cup {[next_steps |-> steps, current_step_index |-> i] :
             steps \in StepLists, i \in 0..(MaxTasks + 1)}

InitRouting ==
    /\ PlanOff
    /\ RouterOff
    /\ WorkflowOff
    /\ ApiOff
    /\ ComplianceOff
    /\ RunOff
    /\ rl_state \in RoutingStates
    /\ rl_channel = <<>>

RoutingCall ==
    /\ rl_channel = <<>>
    /\ rl_channel' = routing_logic(rl_state)
    /\ UNCHANGED <<planVars, routerVars, workflowVars, rl_state, apiVars, complianceVars, runVars>>

NextRouting == RoutingCall

SpecRouting == InitRouting /\ [][NextRouting]_vars

\* ----------------------------------------------------------------- HTTP API
\* POST /process-document and POST /score-agent. A request to
\* /process-document is handled in two steps, the saving of the upload and
\* the call of the workflow with the response and the cleanup; between the
\* two, requests handled by other workers of the server, which share the
\* directory temp_uploads, can take their steps.
Reqs == 1..MaxRequests

FileNames == {"a.txt", "b.txt"}

TraceIds == {"trace"}

NoResponse == [status |-> 0]

\* detail strings: a literal message, str(e) of an HTTPException, and the
\* f-string of the except clause of process_document
Plain(message) == [text |-> message]

StrHTTPException(status_code, detail) == [status_code |-> status_code, detail |-> detail]

Internal(str_e) == [text |-> "Internal Server Error: ", str_e |-> str_e]

\* os.remove(file_path) when os.path.exists(file_path)
Cleanup_Skipped(fs, file_path) == fs

Cleanup(fs, file_path) == [k \in DOMAIN fs \ {file_path} |-> fs[k]]

\* the parameters of run_document_workflow
WorkflowParameters == <<"file_path", "user_request">>

Returns(value) == [raised |-> FALSE, message |-> "", result |-> value]

Raises(message) == [raised |-> TRUE, message |-> message, result |-> EmptyDict]

\* what the body of run_document_workflow does for an upload and a request:
\* it returns a cleaned final state, returns {error: message}, or raises
WorkflowBehaviours(user_request) ==
    {Returns(workflow_result(final_state)) :
        final_state \in GraphFinalStates([raw_text |-> "doc", user_request |-> user_request,
                                          source_lang |-> "en", errors |-> <<>>])}
    \cup {Returns([error |-> NoTextError]), Returns([error |-> "graph error"]),
          Raises("tracing error")}

\* the call run_document_workflow(*args): a call with a number of arguments
\* other than the function's parameters raises TypeError before the body runs
WorkflowCall(args, behaviour) ==
    IF Len(args) # Len(WorkflowParameters)
    THEN Raises("run_document_workflow() takes 2 positional arguments but 3 were given")
    ELSE behaviour

\* the uploads FileLoader(file_path).load() reads in the body of the
\* workflow: the one whose file is at the path when the body runs
Loaded(args, fs, file_path) ==
    IF Len(args) = Len(WorkflowParameters) /\ file_path \in DOMAIN fs
    THEN {fs[file_path]}
    ELSE {}

\* the fields of AnalysisResponse, the response_model of /process-document
SchemaFields ==
    {"raw_text", "source_lang", "extraction", "summary", "translation", "analysis",
     "recommendation", "ideation", "copy", "compliance", "next_steps",
     "current_step_index", "errors", "trace_id"}

\* the body of a 200 response: the result filtered through the response_model
AnalysisResponse(returned) ==
    [k \in SchemaFields |-> IF k \in DOMAIN returned THEN returned[k] ELSE NoneValue]

\* 'not result.get("extraction")'
NoExtraction(returned) == "extraction" \notin DOMAIN returned

\* lines 38-47 of process_document: the response to the outcome of the call
ProcessResponse(call) ==
    IF call.raised
    THEN [status |-> 500, detail |-> Internal(Plain(call.message))]
    ELSE IF "error" \in DOMAIN call.result /\ NoExtraction(call.result)
         THEN [status |-> 500,
               detail |-> Internal(StrHTTPException(500, Plain(call.result["error"])))]
         ELSE [status |-> 200, body |-> AnalysisResponse(call.result)]

InitApi ==
    /\ PlanOff
    /\ RouterOff
    /\ WorkflowOff
    /\ RoutingOff
    /\ ComplianceOff
    /\ RunOff
    /\ api_pc = [r \in Reqs |-> "new"]
    /\ api_uploads \in [Reqs -> [filename : FileNames, user_request : {TranslateAndAnalyze}]]
    /\ api_fs = EmptyDict
    /\ api_responses = [r \in Reqs |-> NoResponse]
    /\ sc_last = NoScore
    /\ sc_backend = {}

\* process_document up to the await: the upload is written to
\* temp_uploads/<filename>; when the write raises, the except clause answers
\* 500 and the finally clause removes whatever file is at the path
save_upload(r) ==
    /\ api_pc[r] = "new"
    /\ LET file_path == api_uploads[r].filename
       IN  \E save \in {"ok", "raises"} :
               IF save = "ok"
               THEN /\ api_fs' = Update(api_fs, [k \in {file_path} |-> r])
                    /\ api_pc' = [api_pc EXCEPT ![r] = "saved"]
                    /\ api_responses' = api_responses
               ELSE /\ api_fs' = Cleanup(api_fs, file_path)
                    /\ api_pc' = [api_pc EXCEPT ![r] = "done"]
                    /\ api_responses' = [api_responses EXCEPT ![r] =
                           [response |-> [status |-> 500, detail |-> Internal(Plain("OSError"))],
                            workflow |-> Raises("not called"),
                            loaded |-> {}]]
    /\ UNCHANGED <<planVars, routerVars, workflowVars, routingVars, complianceVars, runVars,
                   api_uploads, sc_last, sc_backend>>

\* process_document from the call of the workflow on: the call with
\* (file_path, user_request, extract_flag), the response, and the finally clause
finish_request(r) ==
    /\ api_pc[r] = "saved"
    /\ LET upload == api_uploads[r]
           file_path == upload.filename
       IN  \E behaviour \in WorkflowBehaviours(upload.user_request),
              extract_only \in {"false", "true"} :
               LET extract_flag == extract_only \in {"1", "true", "yes"}
                   args == <<file_path, upload.user_request, extract_flag>>
                   call == WorkflowCall(args, behaviour)
               IN  /\ api_responses' = [api_responses EXCEPT ![r] =
                          [response |-> ProcessResponse(call), workflow |-> behaviour,
                           loaded |-> Loaded(args, api_fs, file_path)]]
                   /\ api_fs' = Cleanup(api_fs, file_path)
    /\ api_pc' = [api_pc EXCEPT ![r] = "done"]
    /\ UNCHANGED <<planVars, routerVars, workflowVars, routingVars, complianceVars, runVars,
                   api_uploads, sc_last, sc_backend>>

\* score_agent: every HTTPException raised in the try block is caught by its
\* 'except Exception' and answered as 500 with str(e) as detail
score_agent ==
    /\ \E client \in {"none", "client"}, trace \in {"found", "missing", "raises"},
          create_score \in {"ok", "raises"}, trace_id \in TraceIds :
           LET request == [client |-> client, trace |-> trace,
                           create_score |-> create_score, trace_id |-> trace_id]
               raised ==
                   IF client = "none"
                   THEN StrHTTPException(503, Plain("Langfuse not configured"))
                   ELSE IF trace = "raises"
                        THEN Plain("trace.get error")
                        ELSE IF trace = "missing"
                             THEN StrHTTPException(404, Plain("Trace not found"))
                             ELSE IF create_score = "raises"
                                  THEN Plain("create_score error")
                                  ELSE Plain("")
           IN  IF raised # Plain("")
               THEN /\ sc_last' = [called |-> TRUE, request |-> request,
                                   response |-> [status |-> 500, detail |-> raised]]
                    /\ sc_backend' = sc_backend
               ELSE /\ sc_last' = [called |-> TRUE, request |-> request,
                                   response |-> [status |-> 200,
                                                 body |-> [status |-> "score recorded",
                                                           trace_id |-> trace_id]]]
                    /\ sc_backend' = sc_backend \cup {trace_id}
    /\ UNCHANGED <<planVars, routerVars, workflowVars, routingVars, complianceVars, runVars,
                   api_pc, api_uploads, api_fs, api_responses>>

NextApi ==
    \/ \E r \in Reqs : save_upload(r)
    \/ \E r \in Reqs : finish_request(r)
    \/ score_agent

SpecApi == InitApi /\ [][NextApi]_vars

\* --------------------------------------------------------- compliance agent
\* A text is a sequence of atoms: pieces of words and white space. Adjacent
\* word atoms form one word ("re" followed by "sell" is "resell"), so a word
\* boundary lies only between a word atom and white space or an end.
WordAtoms == {"Sell", "personal", "data", "guarantee", "re"}

SpaceAtoms == {" ", "\n"}

Atoms == WordAtoms \cup SpaceAtoms

Contents == UNION {[1..n -> Atoms] : n \in 0..MaxAtoms}

\* str.lower on an atom
lower(atom) == IF atom = "Sell" THEN "sell" ELSE atom

\* re.sub(r"\s+", " ", text)
RECURSIVE collapse_whitespace(_)
collapse_whitespace(text) ==
    IF text = <<>>
    THEN <<>>
    ELSE IF Head(text) \in SpaceAtoms
         THEN IF Len(text) > 1 /\ text[2] \in SpaceAtoms
              THEN collapse_whitespace(Tail(text))
              ELSE <<" ">> \o collapse_whitespace(Tail(text))
         ELSE <<Head(text)>> \o collapse_whitespace(Tail(text))

\* str.strip
RECURSIVE strip(_)
strip(text) ==
    IF text = <<>>
    THEN <<>>
    ELSE IF Head(text) \in SpaceAtoms
         THEN strip(Tail(text))
         ELSE IF text[Len(text)] \in SpaceAtoms
              THEN strip(SubSeq(text, 1, Len(text) - 1))
              ELSE text

\* ComplianceAgent._normalize
normalize(text) == strip(collapse_whitespace([i \in 1..Len(text) |-> lower(text[i])]))

\* ComplianceAgent.RULES: the alternatives of each pattern in their order
RULES ==
    <<[severity |-> "block",
       pattern |-> <<<<"spam">>, <<"cookie", " ", "stuffing">>, <<"harvest">>,
                     <<"sell", " ", "data">>, <<"sell", " ", "personal">>>>,
       description |-> "Illegal or unethical marketing behavior"],
      [severity |-> "privacy",
       pattern |-> <<<<"ssn">>, <<"social", " ", "security">>, <<"credit", " ", "card">>,
                     <<"dob">>, <<"date", " ", "of", " ", "birth">>,
                     <<"personal", " ", "data">>>>,
       description |-> "Sensitive personal data detected"],
      [severity |-> "review",
       pattern |-> <<<<"guarantee">>, <<"risk", "-", "free">>, <<"risk", " ", "free">>,
                     <<"risk", "free">>, <<"best", " ", "ever">>, <<"unlimited">>>>,
       description |-> "Potential misleading marketing claim"]>>

\* \b at the gap before position i of the text
WordBoundary(text, i) ==
    LET before == i > 1 /\ text[i - 1] \notin SpaceAtoms
        after == i <= Len(text) /\ text[i] \notin SpaceAtoms
    IN  before # after

\* the alternative matches at position i, between two word boundaries
MatchesAt(alternative, text, i) ==
    /\ i + Len(alternative) - 1 <= Len(text)
    /\ SubSeq(text, i, i + Len(alternative) - 1) = alternative
    /\ WordBoundary(text, i)
    /\ WordBoundary(text, i + Len(alternative))

\* the first alternative of the pattern that matches at position i, or 0
FirstAlternative(pattern, text, i) ==
    IF \E a \in 1..Len(pattern) : MatchesAt(pattern[a], text, i)
    THEN CHOOSE a \in 1..Len(pattern) :
             /\ MatchesAt(pattern[a], text, i)
             /\ \A b \in 1..(a - 1) : ~MatchesAt(pattern[b], text, i)
    ELSE 0

\* re.findall(pattern, text): the non-overlapping matches from left to right
RECURSIVE findall(_, _, _)
findall(pattern, text, i) ==
    IF i > Len(text)
    THEN <<>>
    ELSE LET a == FirstAlternative(pattern, text, i)
         IN  IF a = 0
             THEN findall(pattern, text, i + 1)
             ELSE <<pattern[a]>> \o findall(pattern, text, i + Len(pattern[a]))

\* the issues one rule adds: one per match
RuleIssues(rule, normalized) ==
    LET matches == findall(rule.pattern, normalized, 1)
    IN  [m \in 1..Len(matches) |->
            [severity |-> rule.severity, match |-> matches[m],
             description |-> rule.description]]

\* the loop over RULES of ComplianceAgent.run
RECURSIVE CollectIssues(_, _)
CollectIssues(r, normalized) ==
    IF r > Len(RULES)
    THEN <<>>
    ELSE RuleIssues(RULES[r], normalized) \o CollectIssues(r + 1, normalized)

\* mutant: the privacy test comes before the block test
resolve_status_PrivacyFirst(issues) ==
    IF \E i \in 1..Len(issues) : issues[i].severity = "privacy"
    THEN "review"
    ELSE IF \E i \in 1..Len(issues) : issues[i].severity = "block"
         THEN "block"
         ELSE IF issues # <<>> THEN "review" ELSE "ok"

\* ComplianceAgent._resolve_status
resolve_status(issues) ==
    IF \E i \in 1..Len(issues) : issues[i].severity = "block"
    THEN "block"
    ELSE IF \E i \in 1..Len(issues) : issues[i].severity = "privacy"
         THEN "review"
         ELSE IF issues # <<>> THEN "review" ELSE "ok"

\* the weights of ComplianceAgent._calculate_risk
weights == [block |-> 5, privacy |-> 3, review |-> 1]

\* ComplianceAgent._calculate_risk
RECURSIVE calculate_risk(_)
calculate_risk(issues) ==
    IF issues = <<>>
    THEN 0
    ELSE weights[Head(issues).severity] + calculate_risk(Tail(issues))

\* ComplianceAgent.run
ComplianceRun(content) ==
    LET normalized == normalize(content)
        issues == CollectIssues(1, normalized)
    IN  [status |-> resolve_status(issues),
         issues |-> issues,
         issue_count |-> Len(issues),
         risk_score |-> calculate_risk(issues)]

InitCompliance ==
    /\ PlanOff
    /\ RouterOff
    /\ WorkflowOff
    /\ RoutingOff
    /\ ApiOff
    /\ RunOff
    /\ ca_content \in Contents
    /\ ca_result = NotRun

\* one call ComplianceAgent().run(content)
ComplianceCall ==
    /\ ca_result = NotRun
    /\ ca_result' = ComplianceRun(ca_content)
    /\ UNCHANGED <<planVars, routerVars, workflowVars, routingVars, apiVars, runVars,
                   ca_content>>

NextCompliance == ComplianceCall

SpecCompliance == InitCompliance /\ [][NextCompliance]_vars

Next ==
    \/ extraction_node
    \/ refiner_node
    \/ router_node
    \/ ExecutorCall
    \/ \E t \in CapSet : AgentReturns(t)
    \/ \E t \in CapSet : AgentRaises(t)
    \/ \E t \in CapSet : AgentHangs(t)
    \/ CollectResult
    \/ CollectTimeout
    \/ ExecutorReturn
    \/ CoordinatorDone
    \/ AgentsCall
    \/ \E t \in CapSet : NodeReturns(t)
    \/ \E t \in CapSet : NodeRaises(t)
    \/ \E t \in CapSet : CoroutineResumes(t)
    \/ GatherDone
    \/ \E t \in CapSet : task_node(t)
    \/ \E t \in CapSet : task_node_raises(t)
    \/ GraphEnd

Spec == Init /\ [][Next]_vars

\* Every node call and every executor step that can run does run; a worker
\* thread that has not hung finishes; a future that stays unfinished makes
\* future.result(timeout) raise.
Fairness ==
    /\ WF_vars(extraction_node)
    /\ WF_vars(refiner_node)
    /\ WF_vars(router_node)
    /\ WF_vars(ExecutorCall)
    /\ \A t \in CapSet : WF_vars(AgentReturns(t) \/ AgentRaises(t))
    /\ WF_vars(CollectResult)
    /\ WF_vars(CollectTimeout)
    /\ WF_vars(ExecutorReturn)
    /\ WF_vars(CoordinatorDone)
    /\ WF_vars(AgentsCall)
    /\ \A t \in CapSet : WF_vars(NodeReturns(t) \/ NodeRaises(t))
    /\ \A t \in CapSet : WF_vars(CoroutineResumes(t))
    /\ WF_vars(GatherDone)
    /\ \A t \in CapSet : WF_vars(task_node(t) \/ task_node_raises(t))
    /\ WF_vars(GraphEnd)

FairSpec == Spec /\ Fairness

\* A run of parallel_agents_node whose coordinator invokes the node more than
\* once, started from the routed state of the requests the keyword fallback
\* plans as [analyze] and as [translate, analyze].
InitRerun ==
    /\ PlanOff
    /\ RouterOff
    /\ WorkflowOff
    /\ RoutingOff
    /\ ApiOff
    /\ ComplianceOff
    /\ impl = "agents"
    /\ pc = "Routed"
    /\ \E r \in {FullReport, TranslateAndAnalyze}, response \in ExtractorOutcomes :
           LET routed == [raw_text |-> "doc", user_request |-> r, source_lang |-> "en",
                          errors |-> <<>>, extraction |-> response,
                          evaluations |-> <<"extraction", "refinement">>]
           IN  state = Merge(routed, RouterUpdate(routed, keyword_fallback(r)))
    /\ thread = NoThreads /\ result = NoDicts /\ saw = NoDicts
    /\ ex_pc = "idle" /\ ex_i = 0 /\ ex_index = 0 /\ ex_batch = <<>>
    /\ ex_results = EmptyDict /\ last_call = NoCall /\ agent_out = NoDicts
    /\ timed_out = {} /\ snapshot = EmptyDict /\ exec_log = <<>> /\ node_calls = 0
    /\ writes = <<>>

NextRerun ==
    \/ AgentsCall
    \/ \E t \in CapSet : NodeReturns(t)
    \/ \E t \in CapSet : NodeRaises(t)
    \/ \E t \in CapSet : CoroutineResumes(t)
    \/ GatherDone
    \/ AgentsRecall

SpecRerun == InitRerun /\ [][NextRerun]_vars

\* ------------------------------------------------------------------ claims
BatchUnion(bs) == UNION {Range(bs[b]) : b \in DOMAIN bs}

\* C1: for every task list T, the batches of group_parallel_agents(T) have as
\* union the set of T, and a batch holding translate or compliance holds
\* nothing else.
C1_PlanCoversAndIsolates ==
    plan_pc = "done" =>
        /\ BatchUnion(plan_batches) = Range(plan_tasks)
        /\ \A b \in DOMAIN plan_batches :
               (\E k \in DOMAIN plan_batches[b] : RunsAlone(plan_batches[b][k]))
                   => Len(plan_batches[b]) = 1

C1_Witness ==
    /\ plan_pc = "done"
    /\ Len(plan_tasks) = 3
    /\ plan_tasks[1] = "analyze"
    /\ plan_tasks[2] = "recommend"
    /\ RunsAlone(plan_tasks[3])
    /\ Len(plan_batches) = 2

\* the maximal run of parallel-safe tasks that ends right before position i
RECURSIVE RunStart(_, _)
RunStart(tasks, i) ==
    IF i > 1 /\ ~RunsAlone(tasks[i - 1]) THEN RunStart(tasks, i - 1) ELSE i

\* C2: every translate or compliance of the list sits in a batch of exactly
\* one element; the batches before it are exactly the tasks before it (the
\* pending parallel-safe run flushed as the batch right before it), and the
\* batches after it are exactly the tasks after it.
C2_SingletonInPlace ==
    plan_pc = "done" =>
        \A i \in DOMAIN plan_tasks :
            RunsAlone(plan_tasks[i]) =>
                \E b \in DOMAIN plan_batches :
                    /\ plan_batches[b] = <<plan_tasks[i]>>
                    /\ Flatten(SubSeq(plan_batches, 1, b - 1)) = SubSeq(plan_tasks, 1, i - 1)
                    /\ Flatten(SubSeq(plan_batches, b + 1, Len(plan_batches)))
                           = SubSeq(plan_tasks, i + 1, Len(plan_tasks))
                    /\ RunStart(plan_tasks, i) < i =>
                           /\ b > 1
                           /\ plan_batches[b - 1]
                                  = SubSeq(plan_tasks, RunStart(plan_tasks, i), i - 1)

C2_Witness ==
    /\ plan_pc = "done"
    /\ plan_tasks = <<"analyze", "translate", "summarize">>
    /\ plan_batches = << <<"analyze">>, <<"translate">>, <<"summarize">> >>

\* ------------------------------------------------------- executor claims
Done == pc = "Done"

PerTaskErrors == Get(state, "agent_errors", EmptyDict)

Populated(d) == {f \in OutputFields : f \in DOMAIN d}

\* the last finished executor call ran a batch of several tasks
MultiBatchReturned ==
    /\ impl = "batch"
    /\ ex_pc = "idle"
    /\ last_call.kind = "batch"
    /\ Cardinality(last_call.ran) >= 2

\* C3: a batch of N tasks in which task k raises and the other N-1 succeed:
\* the executor does not raise, its merged output has exactly N-1 populated
\* capability fields (not the one of k), the per-task error map has exactly
\* one entry and it is for k, and the cursor has advanced by 1.
C3_OneFailureIsolatedAndRecorded ==
    \A k \in CapSet :
        (/\ MultiBatchReturned
         /\ k \in last_call.ran
         /\ thread[k] = "raised"
         /\ \A t \in last_call.ran \ {k} : thread[t] = "returned"
         /\ last_call.ran \cap timed_out = {})
            => /\ Cardinality(Populated(last_call.update)) = Cardinality(last_call.ran) - 1
               /\ state_key(k) \notin DOMAIN last_call.update
               /\ state_key(k) \notin DOMAIN state
               /\ DOMAIN PerTaskErrors = {k}
               /\ BatchIndex = last_call.index + 1

\* the part of C3 the code keeps: the failure is isolated, nothing is recorded
C3_OneFailureIsolated ==
    \A k \in CapSet :
        (/\ MultiBatchReturned
         /\ k \in last_call.ran
         /\ thread[k] = "raised"
         /\ \A t \in last_call.ran \ {k} : thread[t] = "returned"
         /\ last_call.ran \cap timed_out = {})
            => /\ Cardinality(Populated(last_call.update)) = Cardinality(last_call.ran) - 1
               /\ state_key(k) \notin DOMAIN state
               /\ BatchIndex = last_call.index + 1

\* C4: every executor call that executes a batch leaves current_batch_index
\* exactly one above the cursor it read, whatever became of the tasks; the
\* batches executed so far are therefore batch 0, 1, 2, ... each once.
C4_CursorAdvancesByOne ==
    /\ last_call.kind = "batch" => BatchIndex = last_call.index + 1
    /\ \A j \in DOMAIN exec_log : exec_log[j] = j - 1

C4_Witness ==
    /\ ex_pc = "idle"
    /\ last_call.kind = "batch"
    /\ exec_log = <<0, 1>>
    /\ BatchIndex = 2
    /\ timed_out # {}
    /\ \E t \in CapSet : thread[t] = "raised"

\* C5: 0 <= current_batch_index <= len(parallel_batches) in every state, no
\* step decreases current_batch_index, and an executor call made with the
\* cursor at len(parallel_batches) starts no task and returns an empty update.
C5_CursorBoundedMonotone ==
    /\ [](BatchIndex >= 0 /\ BatchIndex <= Len(Batches))
    /\ [][BatchIndex' >= BatchIndex]_vars
    /\ [][(ExecutorCall /\ BatchIndex = Len(Batches))
             => /\ thread' = thread
                /\ exec_log' = exec_log
                /\ state' = state
                /\ last_call'.kind = "empty"
                /\ last_call'.update = EmptyDict]_vars

C5_Witness ==
    /\ last_call.kind = "empty"
    /\ Len(Batches) = 2
    /\ BatchIndex = 2
    /\ exec_log = <<0, 1>>

BatchOf(t) == CHOOSE b \in DOMAIN Batches : t \in Range(Batches[b])

\* the result of a task whose future was collected is in the workflow state
MergedIntoState(t) ==
    (thread[t] = "returned" /\ t \notin timed_out)
        => /\ state_key(t) \in DOMAIN state
           /\ state[state_key(t)] = AgentOutput(t)

\* C6: whenever a task of some batch has been started, every task of every
\* earlier batch has finished (returned or raised, also when it had timed
\* out) and the results of the earlier batches are merged into the state.
C6_BatchesStrictlySequential ==
    impl = "batch" =>
        \A t \in CapSet :
            thread[t] # "idle" =>
                \A b \in 1..(BatchOf(t) - 1) :
                    \A u \in Range(Batches[b]) :
                        /\ Finished(u)
                        /\ MergedIntoState(u)
                        /\ BatchIndex >= b

C6_Witness ==
    /\ impl = "batch"
    /\ ex_index = 1
    /\ \E t \in Range(ex_batch) : thread[t] = "running"
    /\ \E u \in Range(Batches[1]) : u \in timed_out /\ Finished(u)
    /\ \E u \in Range(Batches[1]) : thread[u] = "raised"

\* the batches 0 .. n-1, each once, in list order
InOrder(log, n) == Len(log) = n /\ \A j \in DOMAIN log : log[j] = j - 1

\* C7: from a routed state, if every task eventually returns, fails or times
\* out, the workflow eventually is Done with the cursor at len(batches) and
\* every batch executed exactly once in list order.
C7_EventuallyDone ==
    []<>(\A t \in CapSet : thread[t] = "hung" => t \in timed_out)
        => ((impl = "batch" /\ pc = "Routed")
               ~> (Done /\ BatchIndex = Len(Batches) /\ InOrder(exec_log, Len(Batches))))

\* what the code guarantees: Done is reached when no task hangs
C7_EventuallyDoneUnlessHung ==
    (impl = "batch" /\ pc = "Routed")
        ~> \/ Done /\ BatchIndex = Len(Batches) /\ InOrder(exec_log, Len(Batches))
           \/ \E t \in CapSet : thread[t] = "hung"

\* what task t read, had it read the state dictionary s
ReadOf(t, s) == IF impl = "batch" THEN AgentInput(s) ELSE NodeRead(t, s)

\* C8: while the tasks of a batch run, no task observes a write made by a
\* sibling task: every task reads the state as it was when the batch started.
C8_SnapshotReads ==
    \A t \in Range(ex_batch) : saw[t] # EmptyDict => saw[t] = ReadOf(t, snapshot)

\* second half of C8: task results reach the state only through the merge
\* done after the tasks have finished
C8_MergeOnly == ex_pc # "idle" => state = snapshot

\* the part of C8 the batch executor keeps
C8_SnapshotReadsBatch == impl = "batch" => (C8_SnapshotReads /\ C8_MergeOnly)

\* C9: every capability output field is written at most once in a run, and
\* only by the task that owns it.
FieldOwner ==
    [summary |-> "summarize", translation |-> "translate", analysis |-> "analyze",
     recommendation |-> "recommend", ideation |-> "ideate", copywriting |-> "copywrite",
     compliance |-> "compliance"]

C9_FieldsWrittenOnceByOwner ==
    /\ \A i \in DOMAIN writes :
           /\ writes[i][1] \in DOMAIN FieldOwner
           /\ FieldOwner[writes[i][1]] = writes[i][2]
    /\ \A i, j \in DOMAIN writes : writes[i][1] = writes[j][1] => i = j
    /\ \A f \in Populated(state) : \E i \in DOMAIN writes : writes[i][1] = f

C9_Witness ==
    /\ Done
    /\ Len(writes) = 3
    /\ Cardinality(Populated(state)) = 3

\* C10: when a task of a multi-task batch times out, the executor records a
\* task-scoped error for it with the timeout message, leaves its output
\* field null, and still merges the results of the other tasks of the batch.
C10_TimeoutRecorded ==
    \A k \in CapSet :
        (MultiBatchReturned /\ k \in last_call.ran /\ k \in timed_out)
            => /\ k \in DOMAIN PerTaskErrors
               /\ PerTaskErrors[k] = "execution timed out"
               /\ state_key(k) \notin DOMAIN state
               /\ \A t \in last_call.ran \ {k} : MergedIntoState(t)

\* the part of C10 the code keeps
C10_TimeoutIsolated ==
    \A k \in CapSet :
        (MultiBatchReturned /\ k \in last_call.ran /\ k \in timed_out)
            => /\ state_key(k) \notin DOMAIN state
               /\ \A t \in last_call.ran \ {k} : MergedIntoState(t)

\* every task of the running batch has returned, raised or timed out
AllReturnedOrTimedOut ==
    /\ impl = "batch"
    /\ ex_pc = "join"
    /\ \A t \in Range(ex_batch) : Finished(t) \/ t \in timed_out

\* C11: once every task of a multi-task batch has either returned or timed
\* out, the join completes and the executor returns, also when a timed-out
\* task never returns; and the timeout of one task cancels no sibling task.
C11_JoinCompletesAfterTimeouts ==
    /\ AllReturnedOrTimedOut ~> (ex_pc = "idle")
    /\ [][\A t \in timed_out' \ timed_out :
              \A u \in CapSet \ {t} : thread'[u] = thread[u]]_vars

\* the part of C11 the code keeps: a timeout leaves every sibling running,
\* and the join completes when the timed-out tasks do finish
C11_NoSiblingCancelled ==
    /\ [][\A t \in timed_out' \ timed_out :
              \A u \in CapSet \ {t} : thread'[u] = thread[u]]_vars
    /\ AllReturnedOrTimedOut
           ~> (ex_pc = "idle" \/ \E t \in Range(ex_batch) : thread[t] = "hung")

\* --------------------------------------------------------- router claims
\* the elements of a sequence, each kept at its first occurrence
RECURSIVE Dedup(_)
Dedup(seq) ==
    IF seq = <<>>
    THEN <<>>
    ELSE LET front == Dedup(SubSeq(seq, 1, Len(seq) - 1))
             last == seq[Len(seq)]
         IN  IF last \in Range(front) THEN front ELSE Append(front, last)

NoDuplicates(seq) == \A i, j \in DOMAIN seq : seq[i] = seq[j] => i = j

\* the capability names of the tokens that are exactly a capability name
RECURSIVE NamedTokens(_)
NamedTokens(response) ==
    IF response = <<>>
    THEN <<>>
    ELSE (IF Head(response).exact THEN Head(response).mentions ELSE <<>>)
             \o NamedTokens(Tail(response))

\* decide has been called on an LLM response and has returned
Decided ==
    /\ rt_kind = "decide"
    /\ rt_results # <<>>
    /\ ~rt_results[1].raised
    /\ ~rt_llm.raised

\* C14: for every LLM response, decide returns a non-empty list of
\* whitelisted capability names without duplicates, in which every token
\* that is not a capability name is dropped and the capabilities stand in
\* the order of their first mention in the response.
C14_SanitizedFirstMention ==
    Decided =>
        LET out == rt_results[1].tasks
            named == Dedup(NamedTokens(rt_llm.response))
        IN  /\ out # <<>>
            /\ Range(out) \subseteq CapSet
            /\ NoDuplicates(out)
            /\ named # <<>> => out = named
            /\ named = <<>> => out = keyword_fallback(rt_request)

\* the part of C14 the code keeps: non-empty, whitelisted, no duplicates,
\* and a response of capability names only is returned in its own order
C14_WhitelistedNoDuplicates ==
    Decided =>
        LET out == rt_results[1].tasks
            named == Dedup(NamedTokens(rt_llm.response))
        IN  /\ out # <<>>
            /\ Range(out) \subseteq CapSet
            /\ NoDuplicates(out)
            /\ (named # <<>> /\ \A i \in DOMAIN rt_llm.response : rt_llm.response[i].exact)
                   => out = named

\* the primary classification failed: the chain raised or nothing was kept
PrimaryFailed ==
    rt_llm.raised \/ FilterTasks(rt_llm.response, 1, <<>>) = <<>>

\* C15: whenever the LLM call raises or its sanitized result is empty,
\* decide returns the keyword-fallback result for the same request, and no
\* call of decide ends with an exception reaching its caller.
C15_FallbackNeverRaises ==
    (rt_kind = "decide" /\ rt_results # <<>>) =>
        /\ ~rt_results[1].raised
        /\ PrimaryFailed => rt_results[1].tasks = keyword_fallback(rt_request)

\* the part of C15 the code keeps: a failure of the primary mechanism is
\* answered by the keyword fallback, and only a tracing call that raises
\* makes decide raise
C15_FallbackOnPrimaryFailure ==
    (rt_kind = "decide" /\ rt_results # <<>>) =>
        /\ rt_results[1].raised => rt_tracing = "raises"
        /\ (PrimaryFailed /\ ~rt_results[1].raised)
               => rt_results[1].tasks = keyword_fallback(rt_request)

\* the lower-cased request contains a keyword of the capability's category
Matched(c, request) == AnyWordIn(Keywords[c], request)

\* C16: _keyword_fallback returns a capability exactly when the request
\* contains a keyword of its category (campaign, idea and headline keywords
\* give ideate; email and copy keywords give copywrite); summarize, when
\* matched, is at position 0; when no category matches the result is
\* exactly [analyze].
C16_FallbackMatchesKeywords ==
    rt_kind = "fallback" =>
        \A i \in DOMAIN rt_results :
            LET request == rt_results[i].request
                tasks == rt_results[i].tasks
            IN  /\ (\E c \in CapSet : Matched(c, request))
                       => \A c \in CapSet : c \in Range(tasks) <=> Matched(c, request)
                /\ Matched("summarize", request) => tasks[1] = "summarize"
                /\ (\A c \in CapSet : ~Matched(c, request)) => tasks = <<"analyze">>
                /\ request \cap {"campaign", "ideas", "headline"} # {}
                       => "ideate" \in Range(tasks)
                /\ "email copy" \in request => "copywrite" \in Range(tasks)

C16_Witness ==
    /\ rt_kind = "fallback"
    /\ \E i \in DOMAIN rt_results :
           /\ rt_results[i].request = {"summary", "translate"}
           /\ rt_results[i].tasks = <<"summarize", "translate">>
    /\ \E i \in DOMAIN rt_results :
           /\ rt_results[i].request = FullReport
           /\ rt_results[i].tasks = <<"analyze">>

C13_RouterReentryNoOp ==
    [][(Get(state, "next_steps", <<>>) # <<>> /\ router_node)
          => /\ state' = state
             /\ pc' = "Routed"]_vars

C13_Witness ==
    /\ impl = "graph"
    /\ pc = "Routed"
    /\ Len(NextSteps) = 2
    /\ StepIndex = 1
    /\ Cardinality(Populated(state)) = 1

\* the capability task t ran to its end and its result was collected
Succeeded(t) == thread[t] = "returned" /\ t \notin timed_out

\* C12: when a capability task fails, the state run_document_workflow
\* returns holds the results of the tasks that succeeded and the per-task
\* error map with an entry for the failed task, and the failed task's
\* output field is absent.
C12_PartialResultsAndErrorMap ==
    Returned =>
        \A k \in CapSet :
            thread[k] = "raised" =>
                /\ \A t \in CapSet : Succeeded(t) => state_key(t) \in DOMAIN Response
                /\ "agent_errors" \in DOMAIN Response
                /\ k \in DOMAIN Response["agent_errors"]
                /\ state_key(k) \notin DOMAIN Response

\* the part of C12 the code keeps: the failed task's field is absent from
\* the response, the executors keep the results of the tasks that succeeded,
\* and parallel_agents_node records the failure in the state it returns
C12_FailedFieldAbsent ==
    Returned =>
        \A k \in CapSet :
            thread[k] = "raised" =>
                /\ state_key(k) \notin DOMAIN Response
                /\ impl # "graph" =>
                       \A t \in CapSet : Succeeded(t) => state_key(t) \in DOMAIN Response
                /\ impl = "agents" => k \in DOMAIN PerTaskErrors

ExtractionFailed == Get(state, "extraction", NoneValue) = ExtractionError

\* C20: when the extraction stage fails the workflow goes directly to
\* Failed: routing is not performed, no task or batch is executed, and
\* run_document_workflow returns only {error: message}.
C20_ExtractionFailureStops ==
    ExtractionFailed =>
        /\ pc = "Failed"
        /\ "next_steps" \notin DOMAIN state
        /\ \A t \in CapSet : thread[t] = "idle"
        /\ exec_log = <<>>
        /\ DOMAIN Response = {"error"}

\* what the code does instead: the structured error is stored as the
\* extraction and never turns the run into a failed one by itself
C20_ExtractionErrorStored ==
    (ExtractionFailed /\ pc \in {"Extracted", "Refined", "Routed", "TaskDone", "Done"})
        => /\ state["extraction"] = ExtractionError
           /\ Returned => (Response["extraction"] = ExtractionError
                              /\ "error" \notin DOMAIN Response)

\* every task of the plan returned and none timed out
NoTaskFailed ==
    /\ timed_out = {}
    /\ \A t \in Range(NextSteps) : thread[t] = "returned"

C19_FullReportFallback ==
    rt_kind = "fallback" =>
        \A i \in DOMAIN rt_results :
            rt_results[i].request = FullReport =>
                /\ rt_results[i].tasks = <<"summarize", "analyze", "recommend">>
                /\ group_parallel_agents(rt_results[i].tasks)
                       = << <<"summarize", "analyze", "recommend">> >>

\* the part of C19 the code keeps: the plan [summarize, analyze, recommend]
\* is one batch, run by one executor call that populates the three outputs
\* and leaves the cursor at 1
C19_FullReportPlanRuns ==
    (impl = "batch" /\ NextSteps = <<"summarize", "analyze", "recommend">>) =>
        /\ Batches = << <<"summarize", "analyze", "recommend">> >>
        /\ (Done /\ NoTaskFailed) =>
               /\ exec_log = <<0>>
               /\ BatchIndex = 1
               /\ Populated(state) = {"summary", "analysis", "recommendation"}

\* ------------------------------------------------- workflow boundary claims
\* the call of run_document_workflow is over
WorkflowOver == wf_pc \in {"returned", "raised"}

\* C21: an exception raised by file ingestion or by the graph is caught at
\* the workflow boundary: run_document_workflow returns exactly
\* {error: message}, the graph is not invoked after an ingestion failure, and
\* no exception reaches the caller.
C21_IngestionAndGraphErrorsCaught ==
    (WorkflowOver /\ wf_exc.kind \in {"ingestion", "graph"}) =>
        /\ wf_pc = "returned"
        /\ wf_result = [error |-> wf_exc.message]
        /\ wf_exc.kind = "ingestion" => wf_graph = "not invoked"

\* C21, the part that holds: when the tracing calls of the except clause do
\* not raise, the exception of the ingestion or of the graph is returned as
\* {error: message}, and the graph is never invoked after an ingestion failure.
C21_CaughtWhenHandlerTracingWorks ==
    /\ (wf_pc = "returned" /\ wf_exc.kind \in {"ingestion", "graph"}) =>
           wf_result = [error |-> wf_exc.message]
    /\ wf_exc.kind = "ingestion" => wf_graph = "not invoked"

\* --------------------------------------------------------- compliance claims
\* the tasks of the plan that produce the content compliance checks
ContentTasks == {t \in {"copywrite", "summarize"} : t \in Range(NextSteps)}

\* the compliance task is started by this step
ComplianceStarts == thread["compliance"] = "idle" /\ thread'["compliance"] # "idle"

\* the text the compliance agent was handed
ComplianceChecked ==
    IF "to_check" \in DOMAIN saw["compliance"]
    THEN saw["compliance"]["to_check"]
    ELSE saw["compliance"]["content"]

\* C22: when the plan holds compliance together with copywrite or summarize,
\* compliance starts only after that content is in the state, the text it
\* checks is that content, and compliance never runs while another task runs.
C22_ComplianceAfterContent ==
    /\ [][(ComplianceStarts /\ ContentTasks # {}) =>
              \A t \in ContentTasks : node_key(t) \in DOMAIN state]_vars
    /\ []((saw["compliance"] # EmptyDict /\ ContentTasks # {}) =>
              ComplianceChecked \in {AgentOutput(t) : t \in ContentTasks})
    /\ [](thread["compliance"] = "running" =>
              \A t \in CapSet \ {"compliance"} : thread[t] # "running")

\* C22, the part that holds: in the batch executor and in the compiled graph
\* no other task runs while compliance runs, and when the plan lists the
\* content task before compliance the compiled graph hands compliance that
\* content.
C22_CompliancePlannedLast ==
    /\ (impl # "agents" /\ thread["compliance"] = "running") =>
           \A t \in CapSet \ {"compliance"} : thread[t] # "running"
    /\ (impl = "graph" /\ saw["compliance"] # EmptyDict /\ ContentTasks # {}
          /\ NextSteps[Len(NextSteps)] = "compliance") =>
           ComplianceChecked \in {AgentOutput(t) : t \in ContentTasks}

\* ------------------------------------------------------- error record claims
AgentErrors(s) == Get(s, "agent_errors", EmptyDict)

Errors(s) == Get(s, "errors", <<>>)

\* C23: across the executor calls of a run, an entry of the per-task error
\* map agent_errors is never removed, and the errors list only grows: what was
\* appended earlier stays at its position.
C23_ErrorRecordsOnlyGrow ==
    [][/\ DOMAIN AgentErrors(state) \subseteq DOMAIN AgentErrors(state')
       /\ Len(Errors(state)) <= Len(Errors(state'))
       /\ SubSeq(Errors(state'), 1, Len(Errors(state))) = Errors(state)]_vars

\* C23, the part that holds: the errors list is never shortened or rewritten,
\* and a run with a single call of parallel_agents_node keeps every entry of
\* agent_errors.
C23_ErrorsListOnlyGrows ==
    [][/\ Len(Errors(state)) <= Len(Errors(state'))
       /\ SubSeq(Errors(state'), 1, Len(Errors(state))) = Errors(state)
       /\ node_calls' <= 1 =>
              DOMAIN AgentErrors(state) \subseteq DOMAIN AgentErrors(state')]_vars

\* ---------------------------------------------------------- frame claims
\* the fields of the state that are set once
FrozenFields == {"raw_text", "source_lang", "extraction", "next_steps", "parallel_batches"}

\* C24: once set, raw_text, source_lang, extraction, next_steps and
\* parallel_batches are left unchanged by every later step: no task node, no
\* executor call and no re-entry of the router modifies any of them.
C24_SetOnceFieldsUnchanged ==
    [][\A k \in FrozenFields \cap DOMAIN state :
           k \in DOMAIN state' /\ state'[k] = state[k]]_vars

\* a run of two batches and a run of two task nodes have ended with the five
\* fields, respectively the four the compiled graph stores, in the state
C24_Witness ==
    /\ pc = "Done"
    /\ \/ impl = "batch" /\ exec_log = <<0, 1>> /\ FrozenFields \subseteq DOMAIN state
       \/ /\ impl = "graph" /\ StepIndex = 2
          /\ FrozenFields \ {"parallel_batches"} \subseteq DOMAIN state

\* ------------------------------------------------------------ tracing claims
\* C25: the result run_document_workflow returns does not depend on the
\* tracing calls: whether they succeed or raise, the call returns, a graph
\* run that returned a final state yields that state cleaned, and no result
\* is the error of a tracing call.
C25_TracingNeverChangesResult ==
    WorkflowOver =>
        /\ wf_pc = "returned"
        /\ wf_graph = "returned" => wf_result = workflow_result(wf_final)
        /\ wf_result # [error |-> TracingError.message]

\* C25, the part that holds: when no tracing call raises, the call returns,
\* with the cleaned final state after a graph run that returned.
C25_ResultWhenTracingWorks ==
    (WorkflowOver /\ ~wf_trace_failed) =>
        /\ wf_pc = "returned"
        /\ wf_graph = "returned" => wf_result = workflow_result(wf_final)

\* ------------------------------------------------------------ routing claims
\* C26: routing_logic returns the channel 'to_<task>' when current_step_index
\* is below len(next_steps) and the task at that index is one of the seven
\* capabilities; it returns 'end' when the index is at or past the end, when
\* next_steps is missing or empty, and when the task is not a capability.
C26_RoutingLogic ==
    rl_channel # <<>> =>
        LET steps == IF "next_steps" \in DOMAIN rl_state THEN rl_state["next_steps"] ELSE <<>>
            index == IF "current_step_index" \in DOMAIN rl_state
                     THEN rl_state["current_step_index"] ELSE 0
            known == {Capabilities[i] : i \in DOMAIN Capabilities}
        IN  /\ (index < Len(steps) /\ steps[index + 1] \in known) =>
                   rl_channel = <<"to", steps[index + 1]>>
            /\ index >= Len(steps) => rl_channel = <<"end">>
            /\ (index < Len(steps) /\ steps[index + 1] \notin known) =>
                   rl_channel = <<"end">>

\* routing_logic was called with a task outside the capabilities at the index
C26_Witness ==
    /\ rl_channel = <<"end">>
    /\ DOMAIN rl_state = {"next_steps", "current_step_index"}
    /\ rl_state["current_step_index"] = 1
    /\ Len(rl_state["next_steps"]) = 2
    /\ rl_state["next_steps"][2] = "unknown"

\* ---------------------------------------------------------------- API claims
\* the request has been answered
Answered(r) == api_pc[r] = "done"

\* the workflow of the request returns a state without a fatal error
WorkflowSucceeds(r) ==
    /\ ~api_responses[r].workflow.raised
    /\ "error" \notin DOMAIN api_responses[r].workflow.result

\* the workflow of the request returns {error} without extraction, or raises
WorkflowFails(r) ==
    /\ api_responses[r].workflow.message # "not called"
    /\ \/ api_responses[r].workflow.raised
       \/ /\ "error" \in DOMAIN api_responses[r].workflow.result
          /\ "extraction" \notin DOMAIN api_responses[r].workflow.result

\* the message of the failed workflow
WorkflowMessage(r) ==
    IF api_responses[r].workflow.raised
    THEN api_responses[r].workflow.message
    ELSE api_responses[r].workflow.result["error"]

\* C27: when the workflow returns a state without a fatal error, POST
\* /process-document responds 200 with that state: the capability outputs,
\* the errors and the trace identifier.
C27_SuccessResponds200 ==
    \A r \in Reqs :
        (Answered(r) /\ WorkflowSucceeds(r)) =>
            /\ api_responses[r].response.status = 200
            /\ \A k \in DOMAIN api_responses[r].workflow.result
                        \cap (OutputFields \cup {"errors", "trace_id"}) :
                   api_responses[r].response.body[k] = api_responses[r].workflow.result[k]

\* C28: POST /process-document responds 500 whenever the workflow returns an
\* {error} result without extraction or raises, and the detail of the
\* response is the workflow's error message.
C28_FatalResponds500WithMessage ==
    \A r \in Reqs :
        (Answered(r) /\ WorkflowFails(r)) =>
            /\ api_responses[r].response.status = 500
            /\ api_responses[r].response.detail = Plain(WorkflowMessage(r))

\* C28, the part that holds: the status is 500
C28_FatalResponds500 ==
    \A r \in Reqs :
        (Answered(r) /\ WorkflowFails(r)) => api_responses[r].response.status = 500

\* C29: POST /score-agent responds 503 when there is no tracing client, 404
\* when the trace is not found, and otherwise forwards the score to the
\* tracing backend and reports it recorded.
C29_ScoreAgentStatuses ==
    sc_last.called =>
        /\ sc_last.request.client = "none" => sc_last.response.status = 503
        /\ (sc_last.request.client = "client" /\ sc_last.request.trace = "missing") =>
               sc_last.response.status = 404
        /\ (sc_last.request.client = "client" /\ sc_last.request.trace = "found"
              /\ sc_last.request.create_score = "ok") =>
               /\ sc_last.response.status = 200
               /\ sc_last.response.body.status = "score recorded"
               /\ sc_last.request.trace_id \in sc_backend

\* C29, the part that holds: a missing client and a missing trace are
\* answered with an error status and nothing is forwarded by that call, and a
\* found trace whose score is accepted is forwarded and reported recorded.
C29_ScoreForwardedOrError ==
    sc_last.called =>
        /\ (sc_last.request.client = "none" \/ sc_last.request.trace = "missing") =>
               sc_last.response.status = 500
        /\ (sc_last.request.client = "client" /\ sc_last.request.trace = "found"
              /\ sc_last.request.create_score = "ok") =>
               /\ sc_last.response.status = 200
               /\ sc_last.response.body.status = "score recorded"
               /\ sc_last.request.trace_id \in sc_backend

\* C30: after a POST /process-document request has finished, with whatever
\* outcome, temp_uploads no longer holds the file that request uploaded.
C30_TempFileRemoved ==
    \A r \in Reqs :
        Answered(r) =>
            ~(/\ api_uploads[r].filename \in DOMAIN api_fs
              /\ api_fs[api_uploads[r].filename] = r)

\* every request is answered, one after its upload was saved and the workflow
\* called, and the directory is empty
C30_Witness ==
    /\ \A r \in Reqs : Answered(r)
    /\ \E r \in Reqs : api_responses[r].workflow.message # "not called"
    /\ api_fs = EmptyDict

\* --------------------------------------------------------- compliance agent claims
\* the severities of the rules whose pattern occurs in the normalized content
MatchedSeverities(content) ==
    LET normalized == normalize(content)
    IN  {RULES[r].severity : r \in {q \in 1..Len(RULES) :
            \E i \in 1..Len(normalized), a \in 1..Len(RULES[q].pattern) :
                MatchesAt(RULES[q].pattern[a], normalized, i)}}

\* C31: ComplianceAgent.run returns "block" with at least one issue of
\* severity "block" whenever the content matches a block rule, whatever other
\* rules match; otherwise "review" when a privacy or review rule matches and
\* "ok" when no rule matches; issue_count is the number of issues.
C31_ComplianceStatus ==
    ca_result # NotRun =>
        LET matched == MatchedSeverities(ca_content)
        IN  /\ "block" \in matched =>
                   /\ ca_result.status = "block"
                   /\ \E i \in 1..Len(ca_result.issues) :
                          ca_result.issues[i].severity = "block"
            /\ ("block" \notin matched /\ matched # {}) => ca_result.status = "review"
            /\ matched = {} => ca_result.status = "ok"
            /\ ca_result.issue_count = Len(ca_result.issues)

\* the content "sell personal data", which matches a block and a privacy rule
C31_Witness ==
    /\ ca_content = <<"Sell", " ", "personal", "\n", "data">>
    /\ ca_result # NotRun
    /\ ca_result.status = "block"
    /\ \E i \in 1..Len(ca_result.issues) : ca_result.issues[i].severity = "privacy"

\* ------------------------------------------------------ compiled graph claims
\* the tasks whose node has run, in the order they ran
TasksRun == [i \in 1..Len(writes) |-> writes[i][2]]

\* the nodes that have run, as the evaluations list records them
NodesRun == Get(state, "evaluations", <<>>)

\* C32: in a run of the compiled graph the nodes run in the order extraction,
\* refinement, routing, then the tasks of next_steps one at a time in plan
\* order, each once; every task node raises current_step_index by exactly
\* one; the run ends when current_step_index equals len(next_steps).
C32_GraphOrder ==
    /\ [](impl = "graph" =>
            /\ pc \in {"Routed", "TaskDone", "Done"} =>
                   /\ StepIndex <= Len(NextSteps)
                   /\ TasksRun = SubSeq(NextSteps, 1, StepIndex)
                   /\ NodesRun = <<"extraction", "refinement">> \o TasksRun
            /\ pc \in {"Init", "Extracted", "Refined"} =>
                   /\ TasksRun = <<>>
                   /\ "next_steps" \notin DOMAIN state
                   /\ NodesRun = SubSeq(<<"extraction", "refinement">>, 1,
                                        IF pc = "Init" THEN 0
                                        ELSE IF pc = "Extracted" THEN 1 ELSE 2)
            /\ pc = "Done" => StepIndex = Len(NextSteps))
    /\ [][(impl = "graph" /\ writes' # writes) =>
              /\ Len(writes') = Len(writes) + 1
              /\ Get(state', "current_step_index", 0) = StepIndex + 1]_vars

\* a graph run over a plan of at least two tasks has ended
C32_Witness ==
    /\ impl = "graph"
    /\ pc = "Done"
    /\ Len(NextSteps) >= 2
    /\ StepIndex = Len(NextSteps)
    /\ TasksRun = NextSteps

\* ----------------------------------------------------- parallel agents claims
\* parallel_agents_node has returned from its call on a non-empty plan
AgentsNodeReturned == impl = "agents" /\ pc = "Done" /\ ex_batch # <<>>

\* the agents of the call whose node function raised
Raised == {t \in Range(ex_batch) : thread[t] = "raised"}

NotRaised == Range(ex_batch) \ Raised

\* C34: the legacy field written for a completed agent holds the value the
\* agent's node function returned under that field, not the node's whole
\* update record.
C34_LegacyFieldHoldsOutput ==
    AgentsNodeReturned =>
        \A t \in NotRaised : state[legacy_key(t)] = result[t][node_key(t)]

\* C34, the part that holds: the legacy field of the compliance agent, whose
\* name is also the key of its node's update, holds the agent's output, and
\* the legacy field of every other completed agent holds the node's update,
\* which has the output under the field's name.
C34_OutputInsideLegacyField ==
    AgentsNodeReturned =>
        \A t \in NotRaised :
            IF t = node_key(t)
            THEN state[legacy_key(t)] = result[t][node_key(t)]
            ELSE state[legacy_key(t)][node_key(t)] = result[t][node_key(t)]

\* C36: in every interleaving of the agents of one parallel_agents_node call
\* the evaluation recorded for an agent, in its AgentOutput and in
\* agent_evaluations, is the one produced for that agent's own output, and
\* the evaluations list of the input state is not modified while they run.
C36_OwnEvaluation ==
    impl = "agents" =>
        /\ \A t \in Range(ex_batch) :
               (agent_out[t] # EmptyDict /\ agent_out[t].status = "completed") =>
                   agent_out[t].evaluation = t
        /\ AgentsNodeReturned =>
               \A t \in NotRaised : state["agent_evaluations"][t] = <<t>>
        /\ ex_pc = "gather" =>
               Get(state, "evaluations", <<>>) = Get(snapshot, "evaluations", <<>>)

\* C36, the part that holds: the evaluation recorded for a completed agent is
\* one produced during the call, for the output of an agent of the call that
\* had returned by the time the record was built.
C36_EvaluationOfTheCall ==
    impl = "agents" =>
        \A t \in Range(ex_batch) :
            (agent_out[t] # EmptyDict /\ agent_out[t].status = "completed") =>
                /\ agent_out[t].evaluation \in Range(ex_batch)
                /\ thread[agent_out[t].evaluation] = "returned"

\* ------------------------------------------------------- batch planner claims
\* C35: for every task list T, the batches of group_parallel_agents(T)
\* concatenated in order are exactly T, with the same elements in the same
\* order and multiplicity, and no batch is empty.
C35_BatchesPartitionTasks ==
    plan_pc = "done" =>
        /\ Flatten(plan_batches) = plan_tasks
        /\ \A b \in DOMAIN plan_batches : plan_batches[b] # <<>>

\* a list with a repeated task, a task that runs alone and a trailing batch
C35_Witness ==
    /\ plan_pc = "done"
    /\ plan_tasks = <<"analyze", "translate", "analyze">>
    /\ plan_batches = << <<"analyze">>, <<"translate">>, <<"analyze">> >>

\* the request has saved its upload and its workflow has not finished
Processing(r) == api_pc[r] = "saved"

\* the file at the path of the request is the upload of that request
OwnFileInPlace(r) ==
    /\ api_uploads[r].filename \in DOMAIN api_fs
    /\ api_fs[api_uploads[r].filename] = r

\* C37: in every interleaving of concurrent POST /process-document requests,
\* also with the same filename, the workflow of a request reads the content
\* that request uploaded, and no other request deletes or replaces the file
\* of a request that is still processing it.
C37_RequestsIsolated ==
    \A r \in Reqs :
        /\ Processing(r) => OwnFileInPlace(r)
        /\ (Answered(r) /\ api_responses[r].loaded # {}) => api_responses[r].loaded = {r}

\* C37, the part that holds: a request whose filename no other request uses
\* keeps its own file in place while it is processing.
C37_DistinctNamesIsolated ==
    \A r \in Reqs :
        (\A q \in Reqs \ {r} : api_uploads[q].filename # api_uploads[r].filename) =>
            /\ Processing(r) => OwnFileInPlace(r)
            /\ (Answered(r) /\ api_responses[r].loaded # {}) => api_responses[r].loaded = {r}

====
